---- MODULE Spec2Model ----
(***************************************************************************)
(* State-machine model of the note.com search result exporter's content   *)
(* script (src/content_script.js): the message listener (startScraping,   *)
(* getProgress), the asynchronous run pipeline it starts, and the          *)
(* harvesters, rating enricher and CSV export the pipeline composes.       *)
(*                                                                         *)
(* JavaScript runs a handler to completion: between two suspension points  *)
(* (an await on a fetch, a body read or a timer) no other handler runs.    *)
(* A run's position is runs[r].pc; positions in Suspended are awaits on    *)
(* the network or a timer, the others are points inside one tick, and the  *)
(* listener and the resumption of another run are enabled only when no     *)
(* run is inside a tick (Quiescent).                                       *)
(***************************************************************************)
EXTENDS Integers, Sequences, FiniteSets, TLC

\* ---- bounds of the model ----
MaxCount == 3      \* largest message.count sent to the listener
MaxPage == 2       \* most normalized articles one API page yields
MaxDom == 3        \* most harvestable articles in the document
MaxRating == 1     \* largest rating value a response carries
MaxRuns == 2       \* accepted startScraping requests per behaviour
MaxBatch == 2      \* longest list handed to a direct call of fetchAllLikeRatings
MaxItems == 3      \* most raw items in one decoded page
MaxRows == 1       \* most articles in one exported file
MaxDepth == 5      \* most objects between a searched root and a rating field
MaxAncestors == 12 \* most elements between an item link and document.body

\* ---- program constants ----
PAGE_SIZE == 20
MAX_RETRIES == 15
AscentLimit == 10  \* for (let i = 0; i < 10; i++) in findArticleContainer

VARIABLES
  scrapingState,   \* the shared SessionState object
  runs,            \* one record per accepted start: the async pipeline's locals
  location,        \* window.location of the page hosting the content script
  event,           \* the last step taken and the response it sent, if any
  downloads,       \* files handed to the save collaborator since the last accepted start
  trace            \* what the pipeline invoked since the last accepted start

vars == <<scrapingState, runs, location, event, downloads, trace>>

\* ---- values ----
Msg(kind, a, b) == [kind |-> kind, a |-> a, b |-> b]

NoMessage == Msg("", 0, 0)

Undefined == [kind |-> "undefined", list |-> <<>>]

Null == [kind |-> "null", list |-> <<>>]

Array(list) == [kind |-> "array", list |-> list]

NoResponse == [status |-> "", current |-> 0, total |-> 0, message |-> NoMessage]

Ack(status) == [status |-> status, current |-> 0, total |-> 0, message |-> NoMessage]

Counts == 0..MaxCount

Ratings == 0..MaxRating

Min(a, b) == IF a < b THEN a ELSE b

Max(a, b) == IF a > b THEN a ELSE b

\* the articles extractNotesFromApiResponse yields for the page at offset start:
\* k titled articles, each with or without a URL that carries a note key
ParsedPages(start) ==
  UNION { { [i \in 1..k |-> [id |-> (start \div PAGE_SIZE) * 10 + i, url |-> f[i]]] :
            f \in [1..k -> BOOLEAN] } : k \in 0..MaxPage }

\* the articles collectArticlesFromDom yields when the document holds d item links
\* (every DOM article has a URL matching /<handle>/n/<key>)
collectArticlesFromDom(d) == [i \in 1..d |-> [id |-> 100 + i, url |-> TRUE]]

\* Array.prototype.slice(0, n)
Slice(s, n) == SubSeq(s, 1, Min(Len(s), n))

\* ---- decoded JSON values and the conversions applied to them ----
\* a number holds twice its value, so that a half is representable
Num(halves) == [kind |-> "number", halves |-> halves]

NaN == [kind |-> "NaN"]

Str(s) == [kind |-> "string", s |-> s]

Bool(b) == [kind |-> "boolean", b |-> b]

\* an object is the sequence of its <<key, value>> properties, in key order
Obj(props) == [kind |-> "object", props |-> props]

\* typeof val
TypeOf(val) ==
  CASE val.kind = "undefined" -> "undefined"
    [] val.kind \in {"null", "array", "object"} -> "object"
    [] val.kind \in {"number", "NaN"} -> "number"
    [] val.kind = "string" -> "string"
    [] val.kind = "boolean" -> "boolean"

\* the truth value of val in a condition
Truthy(val) ==
  CASE val.kind \in {"undefined", "null", "NaN"} -> FALSE
    [] val.kind = "number" -> val.halves # 0
    [] val.kind = "string" -> val.s # ""
    [] val.kind = "boolean" -> val.b
    [] val.kind \in {"array", "object"} -> TRUE

\* a || b
Or(a, b) == IF Truthy(a) THEN a ELSE b

\* Object.entries(val)
Entries(val) ==
  CASE val.kind = "object" -> val.props
    [] val.kind = "array" -> [i \in 1..Len(val.list) |-> <<ToString(i - 1), val.list[i]>>]
    [] OTHER -> <<>>

\* val[key] / val?.[key]: undefined for an absent property and for a non-object
Get(val, key) ==
  LET props == IF val.kind = "object" THEN val.props ELSE <<>>
      at == {i \in 1..Len(props) : props[i][1] = key}
  IN IF at = {} THEN Undefined ELSE props[CHOOSE i \in at : TRUE][2]

\* Number(s) for the strings that occur in the inputs
StringToNumber(s) ==
  CASE s = "" -> Num(0)
    [] s = "7" -> Num(14)
    [] s = "1500" -> Num(3000)
    [] s = "2.5" -> Num(5)
    [] s = "-3" -> Num(-6)
    [] OTHER -> NaN

\* Number(val)
ToNumber(val) ==
  CASE val.kind = "undefined" -> NaN
    [] val.kind = "null" -> Num(0)
    [] val.kind \in {"number", "NaN"} -> val
    [] val.kind = "boolean" -> IF val.b THEN Num(2) ELSE Num(0)
    [] val.kind = "string" -> StringToNumber(val.s)
    [] val.kind = "array" -> IF val.list = <<>> THEN Num(0) ELSE NaN
    [] val.kind = "object" -> NaN

\* String(val), for the values that occur in the inputs
ToStr(val) ==
  CASE val.kind = "string" -> val.s
    [] val.kind = "undefined" -> "undefined"
    [] val.kind = "null" -> "null"
    [] val.kind = "NaN" -> "NaN"
    [] val.kind = "boolean" -> IF val.b THEN "true" ELSE "false"
    [] val.kind = "number" ->
         IF val.halves % 2 = 0 THEN ToString(val.halves \div 2)
         ELSE IF val.halves < 0
              THEN "-" \o ToString((0 - val.halves) \div 2) \o ".5"
              ELSE ToString(val.halves \div 2) \o ".5"
    [] val.kind = "array" -> IF val.list = <<>> THEN "" ELSE "[object Object]"
    [] val.kind = "object" -> "[object Object]"

\* str.startsWith(prefix)
StartsWith(str, prefix) ==
  Len(str) >= Len(prefix) /\ SubSeq(str, 1, Len(prefix)) = prefix

\* ---- field normalizer ----
safeStr(val) == IF val \in {Undefined, Null} THEN "" ELSE ToStr(val)

safeNum(obj, keys) ==
  IF ~Truthy(obj) \/ TypeOf(obj) # "object" THEN Num(0)
  ELSE LET usable == {k \in 1..Len(keys) :
                        /\ Get(obj, keys[k]) \notin {Undefined, Null}
                        /\ ToNumber(Get(obj, keys[k])) # NaN}
       IN IF usable = {} THEN Num(0)
          ELSE ToNumber(Get(obj, keys[CHOOSE k \in usable : \A j \in usable : k <= j]))

\* the first element of a list of values that is truthy, or the last element
FirstTruthy(vals) ==
  LET truthy == {k \in 1..Len(vals) : Truthy(vals[k])}
  IN IF truthy = {} THEN vals[Len(vals)]
     ELSE vals[CHOOSE k \in truthy : \A j \in truthy : k <= j]

Thrown == [kind |-> "throw"]

buildNoteUrl(note, inner) ==
  LET direct == <<Get(inner, "note_url"), Get(inner, "noteUrl"), Get(inner, "url"),
                  Get(note, "note_url"), Get(note, "noteUrl"), Get(note, "url")>>
      found == {k \in 1..Len(direct) :
                  direct[k].kind = "string" /\ StartsWith(direct[k].s, "http")}
      key == FirstTruthy(<<Get(inner, "key"), Get(note, "key"), Get(inner, "slug"),
                           Get(note, "slug"), Str("")>>)
      user == FirstTruthy(<<Get(inner, "user"), Get(note, "user"), Obj(<<>>)>>)
      urlname == FirstTruthy(<<IF TypeOf(user) = "object" THEN Get(user, "urlname")
                               ELSE Str(""),
                               Get(inner, "urlname"), Get(note, "urlname"), Str("")>>)
      href == FirstTruthy(<<Get(inner, "href"), Get(note, "href"), Str("")>>)
  IN IF found # {}
     THEN direct[CHOOSE k \in found : \A j \in found : k <= j]
     ELSE IF Truthy(key) /\ Truthy(urlname)
     THEN Str("https://note.com/" \o ToStr(urlname) \o "/n/" \o ToStr(key))
     ELSE IF ~Truthy(href) THEN Str("")
     \* href.startsWith is not a function unless href is a string
     ELSE IF href.kind # "string" THEN Thrown
     ELSE IF StartsWith(href.s, "http") THEN href
     ELSE Str("https://note.com" \o href.s)

findCreatorName(note, inner) ==
  LET NameOf(obj) ==
        LET user == Get(obj, "user")
        IN IF Truthy(user) /\ TypeOf(user) = "object"
           THEN FirstTruthy(<<Get(user, "nickname"), Get(user, "name"),
                              Get(user, "urlname"), Get(user, "display_name")>>)
           ELSE Undefined
      plain == FirstTruthy(<<NameOf(inner), NameOf(note),
                             Get(inner, "creator_name"), Get(inner, "creatorName"),
                             Get(inner, "author_name"), Get(inner, "authorName"),
                             Get(note, "creator_name"), Get(note, "creatorName"),
                             Get(note, "author_name"), Get(note, "authorName"),
                             Str("")>>)
  IN ToStr(plain)

likeCountKeys ==
  <<"like_count", "likeCount", "likes_count", "likesCount",
    "sp_count", "spCount", "suki_count", "sukiCount">>

priceKeys == <<"price", "amount", "body_price", "bodyPrice">>

NoTitle_Null(article) == Null

\* what is returned when the title resolved to "": the record all the same
\* (no test of title precedes the return statement)
NoTitle(article) == article

extractArticleFromNote(note) ==
  IF ~Truthy(note) \/ TypeOf(note) # "object" THEN Null
  ELSE LET nested == Get(note, "note")
           inner == IF Truthy(nested) /\ TypeOf(nested) = "object" THEN nested ELSE note
           title == FirstTruthy(<<Str(safeStr(Get(inner, "name"))),
                                  Str(safeStr(Get(note, "name"))),
                                  Str(safeStr(Get(inner, "title"))),
                                  Str(safeStr(Get(note, "title"))),
                                  Str(safeStr(Get(inner, "headline"))),
                                  Str(safeStr(Get(note, "headline"))),
                                  Str("")>>).s
           likeCount == Or(safeNum(inner, likeCountKeys), safeNum(note, likeCountKeys))
           \* (price === "無料" never holds: safeNum returns a number)
           price == Or(safeNum(inner, priceKeys), safeNum(note, priceKeys))
           noteUrl == buildNoteUrl(note, inner)
           article == [kind |-> "article", title |-> title,
                       likeCount |-> Or(ToNumber(likeCount), Num(0)),
                       price |-> Or(ToNumber(price), Num(0)),
                       url |-> IF noteUrl = Thrown THEN "" ELSE noteUrl.s,
                       creator |-> findCreatorName(note, inner)]
       IN IF noteUrl = Thrown THEN Thrown
          ELSE IF title = "" THEN NoTitle(article)
          ELSE article

\* ---- page decoder ----
\* Array.isArray(val) && val.length > 0
NonEmptyArray(val) == val.kind = "array" /\ val.list # <<>>

\* ... && typeof value[0] === "object" && value[0] !== null
ArrayOfObjects(val) ==
  NonEmptyArray(val) /\ TypeOf(val.list[1]) = "object" /\ val.list[1] # Null

\* the first property of val, "data" left out when asked, that holds an array of
\* objects; undefined when there is none
FirstArrayProperty(val, skipData) ==
  LET entries == Entries(val)
      hits == {i \in 1..Len(entries) :
                 /\ ~(skipData /\ entries[i][1] = "data")
                 /\ ArrayOfObjects(entries[i][2])}
  IN IF hits = {} THEN Undefined
     ELSE entries[CHOOSE i \in hits : \A j \in hits : i <= j][2]

findNotesArray(data) ==
  IF ~Truthy(data) \/ TypeOf(data) # "object" THEN <<>>
  ELSE LET inData == Get(data, "data")
           paths == <<Get(Get(inData, "notes"), "contents"),
                      Get(Get(inData, "notes"), "items"),
                      Get(inData, "notes"),
                      Get(inData, "contents"),
                      Get(inData, "search_results"),
                      Get(inData, "items"),
                      Get(data, "notes"),
                      Get(data, "contents"),
                      Get(data, "items")>>
           found == {k \in 1..Len(paths) : NonEmptyArray(paths[k])}
           nested == IF Truthy(inData) /\ TypeOf(inData) = "object"
                          /\ inData.kind # "array"
                     THEN FirstArrayProperty(inData, FALSE)
                     ELSE Undefined
           top == FirstArrayProperty(data, TRUE)
       IN IF found # {} THEN paths[CHOOSE k \in found : \A j \in found : k <= j].list
          ELSE IF NonEmptyArray(inData) THEN inData.list
          ELSE IF nested # Undefined THEN nested.list
          ELSE IF top # Undefined THEN top.list
          ELSE <<>>

Usable_Any(article) == article.kind = "article"

\* if (article && article.title), a thrown normalization being caught and skipped
Usable(article) == article.kind = "article" /\ article.title # ""

\* (the two console.log lines read the first items without changing anything:
\* JSON.stringify of a decoded JSON value returns a string)
extractNotesFromApiResponse(data) ==
  LET noteObjects == findNotesArray(data)
      normalized == [i \in 1..Len(noteObjects) |-> extractArticleFromNote(noteObjects[i])]
  IN SelectSeq(normalized, Usable)

\* ---- rating lookup of one article ----
ratingFieldCandidates_WithLikes ==
  <<"like_count", "rating_count", "ratingCount", "recommend_count", "recommendCount">>

ratingFieldCandidates ==
  <<"rating_count", "ratingCount", "recommend_count", "recommendCount",
    "evaluation_count", "evaluationCount", "high_rating_count", "highRatingCount",
    "buyer_like_count", "buyerLikeCount", "purchase_like_count", "purchaseLikeCount">>

\* the names the two textual patterns of the markup search accept
ratingPatternNames ==
  {"rating_count", "ratingCount", "recommend_count", "high_rating_count",
   "buyer_like_count"}

AlphaNumeric ==
  {"a", "b", "c", "d", "e", "f", "g", "h", "i", "j", "k", "l", "m", "n", "o", "p", "q",
   "r", "s", "t", "u", "v", "w", "x", "y", "z", "A", "B", "C", "D", "E", "F", "G", "H",
   "I", "J", "K", "L", "M", "N", "O", "P", "Q", "R", "S", "T", "U", "V", "W", "X", "Y",
   "Z", "0", "1", "2", "3", "4", "5", "6", "7", "8", "9"}

\* articleUrl.match(/\/n\/([a-zA-Z0-9]+)/) finds an identifier
HasNoteKey(articleUrl) ==
  \E i \in 1..Len(articleUrl) :
    /\ i + 3 <= Len(articleUrl)
    /\ SubSeq(articleUrl, i, i + 2) = "/n/"
    /\ SubSeq(articleUrl, i + 3, i + 3) \in AlphaNumeric

Positive(num) == num.kind = "number" /\ num.halves > 0

\* Object.values(obj) that are objects and not arrays
ChildObjects(obj) ==
  SelectSeq([i \in 1..Len(Entries(obj)) |-> Entries(obj)[i][2]],
            LAMBDA val : val.kind = "object")

TooDeep_Two(depth) == depth > 2

\* depth > 3
TooDeep(depth) == depth > 3

RECURSIVE findRatingInObject(_, _, _)
findRatingInObject(obj, fieldCandidates, depth) ==
  IF ~Truthy(obj) \/ TypeOf(obj) # "object" \/ TooDeep(depth) THEN Num(0)
  ELSE LET direct == {k \in 1..Len(fieldCandidates) :
                        /\ Get(obj, fieldCandidates[k]) \notin {Undefined, Null}
                        /\ Positive(ToNumber(Get(obj, fieldCandidates[k])))}
           children == ChildObjects(obj)
           below == {c \in 1..Len(children) :
                       Positive(findRatingInObject(children[c], fieldCandidates, depth + 1))}
       IN IF direct # {}
          THEN ToNumber(Get(obj, fieldCandidates[CHOOSE k \in direct :
                                                   \A j \in direct : k <= j]))
          ELSE IF below # {}
          THEN findRatingInObject(children[CHOOSE c \in below : \A j \in below : c <= j],
                                  fieldCandidates, depth + 1)
          ELSE Num(0)

\* every "key": value pair of a JSON text, in the order of the text
RECURSIVE Pairs(_)
Pairs(val) ==
  LET entries == Entries(val)
      Below[i \in 0..Len(entries)] ==
        IF i = 0 THEN <<>>
        ELSE Below[i - 1] \o (IF val.kind = "object" THEN <<entries[i]>> ELSE <<>>)
                          \o Pairs(entries[i][2])
  IN Below[Len(entries)]

\* "(?:names)"\s*:\s*(\d+) on a text and parseInt of the digits: the first pair
\* with one of the names whose value starts with a digit; undefined when no match
MatchRatingPair(pairs) ==
  LET hits == {i \in 1..Len(pairs) :
                 /\ pairs[i][1] \in ratingPatternNames
                 /\ pairs[i][2].kind = "number"
                 /\ pairs[i][2].halves >= 0}
  IN IF hits = {} THEN Undefined
     ELSE Num(2 * (pairs[CHOOSE i \in hits : \A j \in hits : i <= j][2].halves \div 2))

\* the value found in the decoded body of the detail API, 0 when none
RatingInApiBody(apiData) ==
  LET noteData == Or(Get(apiData, "data"), apiData)
      inner == Or(Get(noteData, "note"), noteData)
  IN IF Positive(safeNum(inner, ratingFieldCandidates))
     THEN safeNum(inner, ratingFieldCandidates)
     ELSE IF Positive(safeNum(noteData, ratingFieldCandidates))
     THEN safeNum(noteData, ratingFieldCandidates)
     ELSE Num(0)

\* the four patterns searched in the markup, in order. The markup is given by its
\* parts: the count in front of the phrase 人が高評価, the content of the
\* __NEXT_DATA__ script (a decoded value, or a string when it does not parse), the
\* object assigned to __NUXT__, and the JSON found elsewhere in the text
RatingInMarkup(html) ==
  LET nextRating == IF html.next.kind = "object"
                    THEN findRatingInObject(html.next, ratingFieldCandidates, 0)
                    ELSE Num(0)
      inNuxt == IF html.nuxt = Undefined THEN Undefined
                ELSE MatchRatingPair(Pairs(html.nuxt))
      anywhere == MatchRatingPair(Pairs(html.next) \o Pairs(html.nuxt) \o Pairs(html.loose))
  IN IF html.phrase # Undefined THEN html.phrase
     ELSE IF Positive(nextRating) THEN nextRating
     ELSE IF inNuxt # Undefined THEN inNuxt
     ELSE IF anywhere # Undefined THEN anywhere
     ELSE Num(0)

NetworkError_Never(api) == FALSE

\* apiNetworkError: the catch of the detail request, entered when fetch or
\* apiRes.json() raises
NetworkError(api) == api.outcome \in {"throw", "bad_json"}

\* fetchLikeRating(articleUrl) when the detail API and the page answer as given:
\* the value it resolves to and the number of requests it issued
fetchLikeRating(articleUrl, api, page) ==
  IF articleUrl = "" \/ ~HasNoteKey(articleUrl) THEN [value |-> Num(0), requests |-> 0]
  ELSE IF NetworkError(api) THEN [value |-> Num(0), requests |-> 1]
  ELSE IF api.outcome = "ok" /\ Positive(RatingInApiBody(api.body))
  THEN [value |-> RatingInApiBody(api.body), requests |-> 1]
  ELSE IF page.outcome \in {"throw", "not_ok", "bad_text"}
  THEN [value |-> Num(0), requests |-> 2]
  ELSE [value |-> RatingInMarkup(page.html), requests |-> 2]

\* ---- DOM fallback: the container of an item link ----
\* The link's ancestors below document.body, nearest first: for each, whether it
\* holds another item link with a different target. Level 1 is the link's parent;
\* the level after the last one is document.body.
Ancestors ==
  UNION { { [k \in 1..n |-> k >= first] : first \in 1..(n + 1) } : n \in 0..MaxAncestors }

\* the level of the element findArticleContainer returns, el being the level the
\* ascent stands on in round i: every return statement hands back
\* linkEl.parentElement, level 1
RECURSIVE Ascend(_, _, _)
Ascend(hasMultiple, el, i) ==
  IF i >= AscentLimit THEN 1
  ELSE IF el > Len(hasMultiple) THEN 1
  ELSE IF hasMultiple[el] THEN 1
  ELSE Ascend(hasMultiple, el + 1, i + 1)

findArticleContainer(hasMultiple) == Ascend(hasMultiple, 1, 0)

\* ---- export file ----
\* str.includes(ch), for a one-character ch
Includes(str, ch) == \E i \in 1..Len(str) : SubSeq(str, i, i) = ch

\* str.replace(/"/g, '""')
RECURSIVE DoubleQuotes(_)
DoubleQuotes(str) ==
  IF str = "" THEN ""
  ELSE (IF Head(str) = "\"" THEN "\"\"" ELSE SubSeq(str, 1, 1))
         \o DoubleQuotes(SubSeq(str, 2, Len(str)))

escapeCsvField(value) ==
  IF ~Truthy(value) THEN "\"\""
  ELSE IF Includes(ToStr(value), "\"") \/ Includes(ToStr(value), ",")
            \/ Includes(ToStr(value), "\n")
  THEN "\"" \o DoubleQuotes(ToStr(value)) \o "\""
  ELSE "\"" \o ToStr(value) \o "\""

\* parts.join(sep)
RECURSIVE Join(_, _)
Join(parts, sep) ==
  IF parts = <<>> THEN ""
  ELSE IF Len(parts) = 1 THEN parts[1]
  ELSE parts[1] \o sep \o Join(Tail(parts), sep)

CsvNumber_Quoted(value) == escapeCsvField(Str(ToStr(value)))

\* String(a.likeCount), String(a.likeRating || 0), String(a.price)
CsvNumber(value) == ToStr(value)

\* the cells of the row of one article
CsvRow(a) ==
  <<escapeCsvField(a.title), CsvNumber(a.likeCount), CsvNumber(Or(a.likeRating, Num(0))),
    CsvNumber(a.price), escapeCsvField(a.url), escapeCsvField(a.creator)>>

\* the six column titles (in the source: タイトル, スキ数, 高評価数, 単価, 記事URL,
\* クリエイター名)
CsvHeaders == <<"title", "likeCount", "likeRating", "price", "url", "creator">>

\* the rows of the file and its text (after the byte order mark)
CsvFile(articles) ==
  LET rows == [k \in 1..Len(articles) |-> CsvRow(articles[k])]
  IN [rows |-> rows,
      csvContent |-> Join(<<Join(CsvHeaders, ",")>>
                            \o [k \in 1..Len(rows) |-> Join(rows[k], ",")], "\n")]

\* ---- arguments of the functions when called on their own ----
\* the properties of an object literal: an absent property is left out
Props(pairs) == SelectSeq(pairs, LAMBDA p : p[2] # Undefined)

TitleValues == {Undefined, Null, Str(""), Str("A")}

\* absent, null, 0, 5, -3, 2.5, "7", the word 無料 (written "muryou"), true
NumberValues ==
  {Undefined, Null, Num(0), Num(10), Num(-6), Num(5), Str("7"), Str("muryou"), Bool(TRUE)}

FlatItems ==
  { Obj(Props(<< <<"name", n>>, <<"title", t>>, <<"like_count", l>>, <<"price", pr>> >>)) :
      n \in TitleValues, t \in {Undefined, Str("T")}, l \in NumberValues, pr \in NumberValues }

\* an item whose article data sits one level down, under "note"
NestedItems ==
  { Obj(Props(<< <<"note", Obj(Props(<< <<"name", n>>, <<"like_count", l>>,
                                         <<"price", pr>> >>))>>,
                 <<"name", on>>, <<"likes_count", ol>>, <<"headline", oh>> >>)) :
      n \in {Undefined, Str("I")}, l \in {Undefined, Num(0), Num(6)},
      pr \in {Undefined, Num(0)}, on \in {Undefined, Str("O")},
      ol \in {Undefined, Num(18)}, oh \in {Undefined, Str("H")} }

\* items with the URL and creator fields in their various places; the last one
\* carries a numeric href
LinkedItems ==
  { Obj(<< <<"name", Str("A")>>, <<"note_url", Str("https://note.com/u/n/k1")>>,
           <<"creator_name", Str("C")>> >>),
    Obj(<< <<"name", Str("B")>>, <<"key", Str("k2")>>,
           <<"user", Obj(<< <<"urlname", Str("v")>>, <<"nickname", Str("N")>> >>)>> >>),
    Obj(<< <<"name", Str("D")>>, <<"href", Str("/w/n/k3")>> >>),
    Obj(<< <<"name", Str("E")>>, <<"href", Num(10)>> >>) }

NonObjects == {Undefined, Null, Num(10), Str("A"), Bool(TRUE)}

\* items whose nested note and whose outer object carry fields of the same name
ShadowedItems ==
  { Obj(<< <<"note", Obj(<< <<"name", n>>, <<"like_count", l>>, <<"price", pr>> >>)>>,
           <<"name", Str("O")>>, <<"like_count", Num(36)>>, <<"price", Num(2000)>> >>) :
      n \in {Str("I"), Str("")}, l \in {Num(0), Num(12)}, pr \in {Num(0), Num(1200)} }

RawItems ==
  FlatItems \cup NestedItems \cup ShadowedItems \cup LinkedItems \cup NonObjects
    \cup {Array(<<>>)}

\* the items of a page: titled ones, an untitled one, a null, a number and one
\* whose normalization raises
PageItems ==
  { Obj(<< <<"name", Str("A")>>, <<"like_count", Num(4)>>,
           <<"note_url", Str("https://note.com/u/n/k1")>> >>),
    Obj(<< <<"note", Obj(<< <<"name", Str("B")>>, <<"price", Num(600)>> >>)>>,
           <<"creator_name", Str("C")>> >>),
    Obj(<< <<"like_count", Num(18)>>, <<"key", Str("k9")>> >>),
    Null,
    Num(10),
    Obj(<< <<"name", Str("E")>>, <<"href", Num(10)>> >>) }

ItemLists == UNION { [1..n -> PageItems] : n \in 0..MaxItems }

\* a decoded page with the list under one of the places findNotesArray looks at
PageShapes == {"data.notes.contents", "data.contents", "data", "data.*", "items", "*"}

Page(shape, list) ==
  CASE shape = "data.notes.contents" ->
         Obj(<< <<"data", Obj(<< <<"notes", Obj(<< <<"contents", Array(list)>> >>)>> >>)>> >>)
    [] shape = "data.contents" ->
         Obj(<< <<"data", Obj(<< <<"contents", Array(list)>> >>)>> >>)
    [] shape = "data" -> Obj(<< <<"data", Array(list)>> >>)
    [] shape = "data.*" ->
         Obj(<< <<"data", Obj(<< <<"total", Num(8)>>, <<"results", Array(list)>> >>)>> >>)
    [] shape = "items" -> Obj(<< <<"items", Array(list)>> >>)
    [] shape = "*" -> Obj(<< <<"data", Null>>, <<"hits", Array(list)>> >>)

Pages == { Page(shape, list) : shape \in PageShapes, list \in ItemLists } \cup {Null, Str("A")}

\* what one place of a page holds: nothing, an empty array, an array of strings,
\* an array that starts with null, or an array of objects; the elements name the
\* place
Held(kind, place) ==
  CASE kind = "absent" -> Undefined
    [] kind = "empty" -> Array(<<>>)
    [] kind = "strings" -> Array(<<Str(place), Str(place)>>)
    [] kind = "nulls" -> Array(<<Null, Obj(<< <<"name", Str(place)>> >>)>>)
    [] kind = "objects" -> Array(<< Obj(<< <<"name", Str(place)>> >>) >>)

HeldKinds == {"absent", "empty", "strings", "objects"}

\* pages with arrays in several of the places findNotesArray looks at
LocatorPages ==
  { Obj(Props(<<
      <<"data", Obj(Props(<<
          <<"notes", Obj(Props(<< <<"contents", Held(a, "data.notes.contents")>> >>))>>,
          <<"total", Num(8)>>,
          <<"results", Held(b, "data.results")>>,
          <<"items", Held(c, "data.items")>> >>))>>,
      <<"hits", Held(d, "hits")>>,
      <<"items", Held(e, "items")>> >>)) :
      a \in HeldKinds, b \in HeldKinds \cup {"nulls"}, c \in HeldKinds, d \in HeldKinds,
      e \in HeldKinds }
  \cup { Obj(Props(<< <<"data", Held(a, "data")>>, <<"hits", Held(d, "hits")>>,
                     <<"items", Held(e, "items")>> >>)) :
           a \in HeldKinds \ {"absent"}, d \in HeldKinds \cup {"nulls"}, e \in HeldKinds }
  \cup {Undefined, Null, Num(10), Str("A"), Obj(<<>>), Held("objects", "0")}

\* an object that holds value under key, below the given number of nested
\* objects; when wide, every level also holds a like_count and an array with a
\* rated object in it
RECURSIVE Chain(_, _, _, _)
Chain(levels, key, value, wide) ==
  LET own == IF levels = 0 THEN <<key, value>> ELSE <<"a", Chain(levels - 1, key, value, wide)>>
  IN IF wide
     THEN Obj(<< <<"like_count", Num(48)>>,
                 <<"list", Array(<< Obj(<< <<"rating_count", Num(36)>> >>) >>)>>, own >>)
     ELSE Obj(<<own>>)

ChainKeys == {"rating_count", "highRatingCount", "like_count"}

ChainValues == {Null, Num(0), Num(10), Num(5), Num(-4), Str("7"), Str("muryou")}

\* what the detail API answers: the request raises, a status other than success,
\* a body that does not decode, or a decoded body
RatingValues == {Undefined, Null, Num(0), Num(6), Num(5), Num(-4), Str("7")}

ApiBodies ==
  { Obj(<< <<"data", Obj(Props(<< <<"like_count", Num(48)>>, <<"rating_count", v>> >>))>> >>) :
      v \in RatingValues }
  \cup { Obj(<< <<"data", Obj(<< <<"note", Obj(Props(<< <<"like_count", Num(48)>>,
                                                       <<"recommendCount", v>> >>))>>,
                               <<"highRatingCount", w>> >>)>> >>) :
           v \in {Undefined, Num(0)}, w \in {Null, Num(14)} }
  \cup {Null, Obj(<< <<"likeCount", Num(48)>> >>)}

ApiAnswers ==
  {[outcome |-> o, body |-> Undefined] : o \in {"throw", "not_ok", "bad_json"}}
    \cup {[outcome |-> "ok", body |-> b] : b \in ApiBodies}

\* the parts of the markup of an article page
Markups ==
  [phrase : {Undefined, Num(0), Num(16)},
   next : {Undefined, Str("{"),
           Obj(<< <<"props", Obj(<< <<"note", Obj(<< <<"like_count", Num(48)>> >>)>> >>)>> >>),
           Obj(<< <<"props", Obj(<< <<"note", Obj(<< <<"rating_count", Num(5)>> >>)>> >>)>> >>),
           Obj(<< <<"a", Obj(<< <<"b", Obj(<< <<"c", Obj(<< <<"d",
                    Obj(<< <<"evaluation_count", Num(8)>> >>)>> >>)>> >>)>> >>)>> >>)},
   nuxt : {Undefined, Obj(<< <<"like_count", Num(48)>> >>),
           Obj(<< <<"like_count", Num(48)>>, <<"high_rating_count", Num(10)>> >>)},
   loose : {Obj(<<>>), Obj(<< <<"like_count", Num(48)>> >>),
            Obj(<< <<"buyer_like_count", Num(6)>> >>)}]

PageAnswers ==
  {[outcome |-> o, html |-> Undefined] : o \in {"throw", "not_ok", "bad_text"}}
    \cup {[outcome |-> "ok", html |-> h] : h \in Markups}

ArticleUrls == {"", "https://note.com/u/m/k1", "https://note.com/u/n/k1"}

\* articles as downloadCSV receives them
CsvArticles ==
  [title : {Str(""), Str("a"), Str("a,b"), Str("sa\"id"), Str("a\nb")},
   likeCount : {Num(0), Num(48)},
   likeRating : {Undefined, Num(0), Num(6)},
   price : {Num(0), Num(1000)},
   url : {Str(""), Str("https://note.com/u/n/k1")},
   creator : {Str("C")}]

CsvLists == UNION { [1..n -> CsvArticles] : n \in 0..MaxRows }

\* ---- the session state object ----
InitialState ==
  [status |-> "idle", current |-> 0, targetCount |-> 0, articles |-> <<>>,
   message |-> NoMessage]

FreshState_Keep(count) ==
  [scrapingState EXCEPT !.status = "scraping", !.targetCount = count]

FreshState_NoStatus(count) ==
  [status |-> scrapingState.status, current |-> 0, targetCount |-> count,
   articles |-> <<>>, message |-> NoMessage]

FreshState(count) ==
  [status |-> "scraping", current |-> 0, targetCount |-> count, articles |-> <<>>,
   message |-> NoMessage]

\* ---- the locals of one run (the async IIFE and the functions it awaits) ----
NewRun(count) ==
  [pc |-> "iife", count |-> count, articles |-> Undefined,
   apiArticles |-> <<>>, start |-> 0,
   lastArticleCount |-> 0, noNewArticleRetries |-> 0,
   farInput |-> <<>>, i |-> 0, results |-> <<>>,
   apiNetworkError |-> FALSE, rating |-> 0, reqs |-> 0]

FinishedRun == [NewRun(0) EXCEPT !.pc = "done"]

NoTrace ==
  [calls |-> <<>>, apiRequests |-> 0, apiFailed |-> FALSE, apiReturn |-> Undefined,
   apiArrived |-> <<>>, scans |-> [mono |-> TRUE, high |-> 0, flat |-> 0],
   enrichInput |-> Undefined, threw |-> FALSE]

Suspended ==
  {"api_fetch", "api_text", "api_sleep", "scroll_sleep",
   "flr_api", "flr_json", "flr_page", "flr_html", "far_sleep"}

RunIds == 1..Len(runs)

Active(r) == runs[r].pc # "done"

MidTick(r) == Active(r) /\ runs[r].pc \notin Suspended

Quiescent == \A r \in RunIds : ~MidTick(r)

\* a run may take a step when it is inside its tick, or when it resumes from a
\* suspension point and no other run is inside a tick
MayStep(r, pc) ==
  /\ r \in RunIds
  /\ runs[r].pc = pc
  /\ (pc \in Suspended => Quiescent)

Step(r, name) ==
  event' = [kind |-> "run", run |-> r, step |-> name, response |-> NoResponse]

Goto(r, pc) == [runs[r] EXCEPT !.pc = pc]

getPageType == IF location.pathname = "/hashtag/" THEN "hashtag" ELSE "search"

Init ==
  /\ scrapingState = InitialState
  /\ runs = <<>>
  /\ location \in [pathname : {"/hashtag/", "/search"}, q : {"", "q"}]
  /\ event = [kind |-> "load", run |-> 0, step |-> "", response |-> NoResponse]
  /\ downloads = <<>>
  /\ trace = NoTrace

\* ---- message listener ----
AlreadyRunning_Off == FALSE

AlreadyRunning == scrapingState.status = "scraping"

startScraping(count) ==
  /\ Quiescent
  /\ IF AlreadyRunning
     THEN /\ event' = [kind |-> "startScraping", run |-> 0, step |-> "",
                       response |-> Ack("already_running")]
          /\ UNCHANGED <<scrapingState, runs, location, downloads, trace>>
     ELSE /\ Len(runs) < MaxRuns
          /\ scrapingState' = FreshState(count)
          /\ runs' = Append(runs, NewRun(count))
          /\ event' = [kind |-> "startScraping", run |-> Len(runs) + 1, step |-> "",
                       response |-> Ack("started")]
          /\ downloads' = <<>>
          /\ trace' = NoTrace
          /\ UNCHANGED location

ProgressReply_Len ==
  [status |-> scrapingState.status, current |-> Len(scrapingState.articles),
   total |-> scrapingState.targetCount, message |-> scrapingState.message]

ProgressReply ==
  [status |-> scrapingState.status, current |-> scrapingState.current,
   total |-> scrapingState.targetCount, message |-> scrapingState.message]

getProgress ==
  /\ Quiescent
  /\ event' = [kind |-> "getProgress", run |-> 0, step |-> "", response |-> ProgressReply]
  /\ UNCHANGED <<scrapingState, runs, location, downloads, trace>>

\* ---- side panel (popup.js): the start button ----
\* String.prototype.includes(sub)
Contains(str, sub) ==
  \E i \in 1..(Len(str) - Len(sub) + 1) : SubSeq(str, i, i + Len(sub) - 1) = sub

IsDigit(ch) == \E d \in 0..9 : ToString(d) = ch

DigitValue(ch) == CHOOSE d \in 0..9 : ToString(d) = ch

\* the value of the longest prefix of decimal digits of str, acc being the value
\* of the digits already read
RECURSIVE LeadingDigits(_, _)
LeadingDigits(str, acc) ==
  IF str = "" \/ ~IsDigit(SubSeq(str, 1, 1)) THEN acc
  ELSE LeadingDigits(Tail(str), acc * 10 + DigitValue(SubSeq(str, 1, 1)))

\* parseInt(str, 10): an optional sign, then the leading digits; NaN without a digit
parseInt(str) ==
  LET negative == str /= "" /\ Head(str) = "-"
      digits == IF negative THEN Tail(str) ELSE str
  IN IF digits = "" \/ ~IsDigit(SubSeq(digits, 1, 1)) THEN NaN
     ELSE Num(2 * (IF negative THEN 0 - LeadingDigits(digits, 0)
                                ELSE LeadingDigits(digits, 0)))

InvalidCount_Never(count) == FALSE

InvalidCount(count) == count = NaN \/ count.halves < 2

\* what chrome.tabs.query yields: no tab, a tab whose url is withheld, or a tab
NoTab == [kind |-> "undefined", url |-> ""]

Tab(url, hosts) == [kind |-> "tab", url |-> url, hosts |-> hosts]

\* the tab of the page that hosts the content script
ThisTab ==
  Tab("https://note.com" \o location.pathname
        \o (IF location.pathname = "/hashtag/" THEN "tag" ELSE "")
        \o (IF location.q = "" THEN "" ELSE "?q=" \o location.q), TRUE)

Tabs ==
  {NoTab, [NoTab EXCEPT !.kind = "tab"], Tab("https://example.com/", FALSE),
   Tab("https://example.com/?from=note.com/search", FALSE), ThisTab}

WrongPage(tab) ==
  tab.kind = "undefined" \/ tab.url = "" \/ ~Contains(tab.url, "note.com/search")

\* the count as the message carries it: an integer (NaN is serialized as null,
\* which every comparison of the page script treats as 0)
MessageCount(count) == IF count = NaN THEN 0 ELSE count.halves \div 2

\* what the panel shows for a click that sent nothing or reached no listener
ClickEvent(status) ==
  [kind |-> "click", run |-> 0, step |-> "", response |-> Ack(status)]

\* the click handler of the start button: the count check, then the query for the
\* active tab and the page check, then the message to the tab; the page script's
\* listener answers in the same step
Click(value) ==
  LET count == parseInt(value) IN
  /\ Quiescent
  /\ IF InvalidCount(count)
     THEN /\ event' = ClickEvent("invalid_count")
          /\ UNCHANGED <<scrapingState, runs, location, downloads, trace>>
     ELSE \E tab \in Tabs :
            IF WrongPage(tab)
            THEN /\ event' = ClickEvent("wrong_page")
                 /\ UNCHANGED <<scrapingState, runs, location, downloads, trace>>
            ELSE IF ~tab.hosts
            THEN /\ event' = ClickEvent("no_receiver")
                 /\ UNCHANGED <<scrapingState, runs, location, downloads, trace>>
            ELSE startScraping(MessageCount(count))

\* ---- the run pipeline (the async function started by an accepted request) ----
Update(r, rec) == runs' = [runs EXCEPT ![r] = rec]

Called(name) == [trace EXCEPT !.calls = Append(@, name)]

\* the run's entry: diagnoseDom, getPageType and the choice of strategy; the DOM
\* calls of diagnoseDom may raise
RunBegin(r) ==
  /\ MayStep(r, "iife")
  /\ Step(r, "iife")
  /\ \E threw \in BOOLEAN :
       IF threw
       THEN /\ Update(r, Goto(r, "catch"))
            /\ trace' = [trace EXCEPT !.threw = TRUE]
       ELSE IF getPageType = "hashtag"
       THEN /\ Update(r, [runs[r] EXCEPT !.pc = "scroll_scan",
                            !.lastArticleCount = 0, !.noNewArticleRetries = 0])
            /\ trace' = Called("autoScrollAndCollect")
       ELSE /\ Update(r, Goto(r, "api_begin"))
            /\ trace' = Called("fetchFromAPI")
  /\ UNCHANGED <<scrapingState, location, downloads>>

\* ---- fetchFromAPI ----
ApiReturn_Array(articles) == Array(articles)

\* return articles.length > 0 ? articles : null
ApiReturn(articles) == IF Len(articles) > 0 THEN Array(articles) ELSE Null

ApiFailure_Partial(articles) == ApiReturn(articles)

ApiFailure(articles) == Null

\* the value fetchFromAPI resolves to, handed to the awaiting pipeline
ApiResolve(r, value) ==
  /\ Update(r, [runs[r] EXCEPT !.pc = "api_ret", !.articles = value])
  /\ UNCHANGED <<location, downloads>>

ApiFail(r) ==
  /\ ApiResolve(r, ApiFailure(runs[r].apiArticles))
  /\ trace' = [trace EXCEPT !.apiFailed = TRUE, !.apiArrived = <<>>,
                              !.apiReturn = ApiFailure(runs[r].apiArticles)]
  /\ UNCHANGED scrapingState

ApiFinish(r) ==
  /\ ApiResolve(r, ApiReturn(runs[r].apiArticles))
  /\ trace' = [trace EXCEPT !.apiReturn = ApiReturn(runs[r].apiArticles)]
  /\ UNCHANGED scrapingState

ApiBegin(r) ==
  /\ MayStep(r, "api_begin")
  /\ Step(r, "api_begin")
  /\ IF location.q = ""
     THEN /\ ApiResolve(r, Null)
          /\ trace' = [trace EXCEPT !.apiReturn = Null]
     ELSE /\ Update(r, [runs[r] EXCEPT !.pc = "api_loop", !.apiArticles = <<>>, !.start = 0])
          /\ UNCHANGED <<location, downloads, trace>>
  /\ UNCHANGED scrapingState

\* the loop test, and the page request it issues
ApiLoop(r) ==
  /\ MayStep(r, "api_loop")
  /\ Step(r, "api_loop")
  /\ IF Len(runs[r].apiArticles) < runs[r].count
     THEN /\ Update(r, Goto(r, "api_fetch"))
          /\ trace' = [trace EXCEPT !.apiRequests = @ + 1]
          /\ UNCHANGED <<scrapingState, location, downloads>>
     ELSE ApiFinish(r)

\* await fetch(apiUrl): the request throws, or answers with or without success
ApiFetch(r) ==
  /\ MayStep(r, "api_fetch")
  /\ Step(r, "api_fetch")
  /\ \E outcome \in {"throw", "not_ok", "ok"} :
       IF outcome = "ok"
       THEN /\ Update(r, Goto(r, "api_text"))
            /\ UNCHANGED <<scrapingState, location, downloads, trace>>
       ELSE ApiFail(r)

PushUpTo_All(articles, parsed, targetCount) == articles \o parsed

PushUpTo_None(articles, parsed, targetCount) == articles

\* for (i...) { if (articles.length >= targetCount) break; articles.push(parsed[i]) }
PushUpTo(articles, parsed, targetCount) ==
  articles \o Slice(parsed, Max(targetCount - Len(articles), 0))

\* await response.text(), JSON.parse, extractNotesFromApiResponse and the push loop
ApiText(r) ==
  /\ MayStep(r, "api_text")
  /\ Step(r, "api_text")
  /\ \/ \E outcome \in {"throw", "bad_json"} : ApiFail(r)
     \/ \E parsedArticles \in ParsedPages(runs[r].start) :
          IF Len(parsedArticles) = 0
          THEN ApiFinish(r)
          ELSE LET articles == PushUpTo(runs[r].apiArticles, parsedArticles, runs[r].count)
               IN /\ Update(r, [runs[r] EXCEPT !.pc = "api_sleep", !.apiArticles = articles,
                                  !.start = @ + PAGE_SIZE])
                  /\ scrapingState' = [scrapingState EXCEPT !.current = Len(articles)]
                  /\ trace' = [trace EXCEPT !.apiArrived = @ \o parsedArticles]
                  /\ UNCHANGED <<location, downloads>>

\* await sleep(500)
ApiSleep(r) ==
  /\ MayStep(r, "api_sleep")
  /\ Step(r, "api_sleep")
  /\ Update(r, Goto(r, "api_loop"))
  /\ UNCHANGED <<scrapingState, location, downloads, trace>>

NeedsFallback_Never(articles) == FALSE

\* !Array.isArray(articles) || articles.length === 0
NeedsFallback(articles) == articles.kind # "array" \/ Len(articles.list) = 0

\* the pipeline after await fetchFromAPI (whose locals are gone): fall back to the
\* DOM, or keep the list
ApiReturned(r) ==
  /\ MayStep(r, "api_ret")
  /\ Step(r, "api_ret")
  /\ IF NeedsFallback(runs[r].articles)
     THEN /\ Update(r, [runs[r] EXCEPT !.pc = "scroll_scan", !.apiArticles = <<>>,
                          !.start = 0,
                          !.lastArticleCount = 0, !.noNewArticleRetries = 0])
          /\ trace' = [Called("autoScrollAndCollect") EXCEPT !.apiArrived = <<>>]
          /\ UNCHANGED scrapingState
     ELSE /\ Update(r, [runs[r] EXCEPT !.pc = "enrich_check", !.apiArticles = <<>>,
                          !.start = 0])
          /\ scrapingState' = [scrapingState EXCEPT !.articles = runs[r].articles.list,
                                 !.current = Len(runs[r].articles.list)]
          /\ trace' = [trace EXCEPT !.apiArrived = <<>>]
  /\ UNCHANGED <<location, downloads>>

\* ---- autoScrollAndCollect ----
\* history of the scans of one call: whether each scan found at least as many
\* articles as the one before, the highest count found, and the number of
\* consecutive scans that did not exceed it (not followed once a scan shrank)
NoScans == [mono |-> TRUE, high |-> 0, flat |-> 0]

Scanned(scans, n) ==
  IF scans.mono /\ n >= scans.high
  THEN [mono |-> TRUE, high |-> n, flat |-> IF n > scans.high THEN 0 ELSE scans.flat + 1]
  ELSE [mono |-> FALSE, high |-> 0, flat |-> 0]

Stagnated_Late(noNewArticleRetries) == noNewArticleRetries > MAX_RETRIES

\* if (noNewArticleRetries >= MAX_RETRIES) return
Stagnated(noNewArticleRetries) == noNewArticleRetries >= MAX_RETRIES

Trim_None(articles, targetCount) == articles

\* scrapingState.articles = articles.slice(0, targetCount)
Trim(articles, targetCount) == Slice(articles, targetCount)

\* one round of the loop: the scan, the two exits, and the scroll
ScrollScan(r) ==
  /\ MayStep(r, "scroll_scan")
  /\ Step(r, "scroll_scan")
  /\ IF scrapingState.status # "scraping"
     THEN /\ Update(r, Goto(r, "scroll_ret"))
          /\ UNCHANGED <<scrapingState, trace>>
     ELSE \E d \in 0..MaxDom :
       LET articles == collectArticlesFromDom(d)
           targetCount == runs[r].count
           same == Len(articles) = runs[r].lastArticleCount
           retries == IF same THEN runs[r].noNewArticleRetries + 1 ELSE 0
       IN /\ trace' = [trace EXCEPT !.scans = Scanned(@, Len(articles))]
          /\ IF Len(articles) >= targetCount
             THEN /\ scrapingState' = [scrapingState EXCEPT
                                         !.articles = Trim(articles, targetCount),
                                         !.current = targetCount]
                  /\ Update(r, Goto(r, "scroll_ret"))
             ELSE /\ scrapingState' = [scrapingState EXCEPT !.articles = articles,
                                         !.current = Len(articles)]
                  /\ IF same /\ Stagnated(retries)
                     THEN Update(r, [runs[r] EXCEPT !.pc = "scroll_ret",
                                       !.noNewArticleRetries = retries])
                     ELSE Update(r, [runs[r] EXCEPT !.pc = "scroll_sleep",
                                       !.noNewArticleRetries = retries,
                                       !.lastArticleCount = Len(articles)])
  /\ UNCHANGED <<location, downloads>>

\* await sleep(2000)
ScrollSleep(r) ==
  /\ MayStep(r, "scroll_sleep")
  /\ Step(r, "scroll_sleep")
  /\ Update(r, Goto(r, "scroll_scan"))
  /\ UNCHANGED <<scrapingState, location, downloads, trace>>

\* articles = scrapingState.articles
ScrollReturned(r) ==
  /\ MayStep(r, "scroll_ret")
  /\ Step(r, "scroll_ret")
  /\ Update(r, [runs[r] EXCEPT !.pc = "enrich_check",
                  !.articles = Array(scrapingState.articles),
                  !.lastArticleCount = 0, !.noNewArticleRetries = 0])
  /\ trace' = [trace EXCEPT !.scans = NoScans]
  /\ UNCHANGED <<scrapingState, location, downloads>>

\* ---- the pipeline between harvest and enrichment ----
HasArticles_Always(articles) == TRUE

\* Array.isArray(articles) && articles.length > 0
HasArticles(articles) == articles.kind = "array" /\ Len(articles.list) > 0

Finish(r) == Update(r, FinishedRun)

EnrichCheck(r) ==
  /\ MayStep(r, "enrich_check")
  /\ Step(r, "enrich_check")
  /\ IF HasArticles(runs[r].articles)
     THEN /\ scrapingState' = [scrapingState EXCEPT !.message = Msg("rating_start", 0, 0)]
          /\ Update(r, [runs[r] EXCEPT !.pc = "far_loop", !.farInput = runs[r].articles.list,
                          !.i = 0, !.results = <<>>])
          /\ trace' = [Called("fetchAllLikeRatings") EXCEPT !.enrichInput = runs[r].articles]
     ELSE /\ scrapingState' = [scrapingState EXCEPT !.status = "error",
                                 !.message = Msg("no_articles", 0, 0)]
          /\ Finish(r)
          /\ UNCHANGED trace
  /\ UNCHANGED <<location, downloads>>

\* ---- fetchAllLikeRatings and fetchLikeRating ----
\* fetchLikeRating resolves: its value reaches the awaiting loop of fetchAllLikeRatings
RatingResolve(r, rating, networkError) ==
  Update(r, [runs[r] EXCEPT !.pc = "far_push", !.rating = rating,
               !.apiNetworkError = networkError])

\* the loop test of fetchAllLikeRatings and the entry of fetchLikeRating
FarLoop(r) ==
  /\ MayStep(r, "far_loop")
  /\ Step(r, "far_loop")
  /\ IF runs[r].i < Len(runs[r].farInput)
     THEN IF ~runs[r].farInput[runs[r].i + 1].url
          THEN Update(r, [runs[r] EXCEPT !.pc = "far_push", !.rating = 0, !.reqs = 0,
                            !.apiNetworkError = FALSE])
          ELSE Update(r, [runs[r] EXCEPT !.pc = "flr_api", !.reqs = 1,
                            !.apiNetworkError = FALSE])
     ELSE Update(r, [runs[r] EXCEPT !.pc = "export", !.articles = Array(runs[r].results)])
  /\ UNCHANGED <<scrapingState, location, downloads, trace>>

\* await fetch(detail API)
FlrApi(r) ==
  /\ MayStep(r, "flr_api")
  /\ Step(r, "flr_api")
  /\ \E outcome \in {"throw", "not_ok", "ok"} :
       CASE outcome = "throw" -> RatingResolve(r, 0, TRUE)
         [] outcome = "not_ok" -> Update(r, [runs[r] EXCEPT !.pc = "flr_page", !.reqs = @ + 1])
         [] outcome = "ok" -> Update(r, Goto(r, "flr_json"))
  /\ UNCHANGED <<scrapingState, location, downloads, trace>>

\* await apiRes.json() and the rating fields of the decoded body
FlrJson(r) ==
  /\ MayStep(r, "flr_json")
  /\ Step(r, "flr_json")
  /\ \/ RatingResolve(r, 0, TRUE)
     \/ \E rating \in Ratings :
          IF rating > 0
          THEN RatingResolve(r, rating, FALSE)
          ELSE Update(r, [runs[r] EXCEPT !.pc = "flr_page", !.reqs = @ + 1])
  /\ UNCHANGED <<scrapingState, location, downloads, trace>>

\* await fetch(articleUrl)
FlrPage(r) ==
  /\ MayStep(r, "flr_page")
  /\ Step(r, "flr_page")
  /\ \E outcome \in {"throw", "not_ok", "ok"} :
       IF outcome = "ok"
       THEN Update(r, Goto(r, "flr_html"))
       ELSE RatingResolve(r, 0, FALSE)
  /\ UNCHANGED <<scrapingState, location, downloads, trace>>

\* await pageRes.text() and the patterns searched in the markup
FlrHtml(r) ==
  /\ MayStep(r, "flr_html")
  /\ Step(r, "flr_html")
  /\ \E rating \in Ratings : RatingResolve(r, rating, FALSE)
  /\ UNCHANGED <<scrapingState, location, downloads, trace>>

Enriched_Bare(article, rating) == [id |-> article.id, url |-> FALSE, likeRating |-> rating]

\* { ...article, likeRating: rating }
Enriched(article, rating) == [id |-> article.id, url |-> article.url, likeRating |-> rating]

RatedSoFar_Left(i) == MaxCount - i

\* scrapingState.current = i + 1
RatedSoFar(i) == i + 1

Delayed_Never(i, length) == FALSE

\* if (i < articles.length - 1) await sleep(300)
Delayed(i, length) == i < length - 1

\* results.push({...article, likeRating}), the progress update, and the delay test
\* (the locals of the fetchLikeRating call that just returned are gone)
FarPush(r) ==
  /\ MayStep(r, "far_push")
  /\ Step(r, "far_push")
  /\ LET article == runs[r].farInput[runs[r].i + 1]
         enriched == Enriched(article, runs[r].rating)
         last == ~Delayed(runs[r].i, Len(runs[r].farInput))
     IN /\ scrapingState' = [scrapingState EXCEPT !.current = RatedSoFar(runs[r].i),
                               !.message = Msg("rating_progress", runs[r].i + 1,
                                               Len(runs[r].farInput))]
        /\ Update(r, [runs[r] EXCEPT !.results = Append(@, enriched),
                        !.pc = IF last THEN "far_loop" ELSE "far_sleep",
                        !.i = IF last THEN @ + 1 ELSE @,
                        !.rating = 0, !.apiNetworkError = FALSE, !.reqs = 0])
  /\ UNCHANGED <<location, downloads, trace>>

\* await sleep(300)
FarSleep(r) ==
  /\ MayStep(r, "far_sleep")
  /\ Step(r, "far_sleep")
  /\ Update(r, [runs[r] EXCEPT !.pc = "far_loop", !.i = @ + 1])
  /\ UNCHANGED <<scrapingState, location, downloads, trace>>

\* ---- export and the end of the run ----
\* the rows downloadCSV writes: one per article, rating column a.likeRating || 0
downloadCSV_Rated(articles) ==
  SelectSeq([k \in 1..Len(articles) |->
               [id |-> articles[k].id, likeRating |-> articles[k].likeRating]],
            LAMBDA row : row.likeRating > 0)

downloadCSV(articles) ==
  [k \in 1..Len(articles) |-> [id |-> articles[k].id, likeRating |-> articles[k].likeRating]]

\* downloadCSV, then the completed transition; the Blob, URL and DOM calls of
\* downloadCSV may raise, before or after the file went to the save collaborator
Export(r) ==
  /\ MayStep(r, "export")
  /\ Step(r, "export")
  /\ LET articles == runs[r].articles.list
     IN \E raised \in {"no", "before_save", "after_save"} :
          /\ downloads' = IF raised = "before_save" THEN downloads
                          ELSE Append(downloads, downloadCSV(articles))
          /\ IF raised = "no"
             THEN /\ scrapingState' = [scrapingState EXCEPT !.status = "completed",
                                         !.current = Len(articles),
                                         !.message = Msg("exported", Len(articles), 0)]
                  /\ Finish(r)
                  /\ trace' = Called("downloadCSV")
             ELSE /\ Update(r, Goto(r, "catch"))
                  /\ trace' = [Called("downloadCSV") EXCEPT !.threw = TRUE]
                  /\ UNCHANGED scrapingState
  /\ UNCHANGED location

\* catch (err) at the top of the run
Catch(r) ==
  /\ MayStep(r, "catch")
  /\ Step(r, "catch")
  /\ scrapingState' = [scrapingState EXCEPT !.status = "error",
                         !.message = Msg("exception", 0, 0)]
  /\ Finish(r)
  /\ UNCHANGED <<location, downloads, trace>>

RunNext ==
  \E r \in RunIds :
    \/ RunBegin(r)
    \/ ApiBegin(r)
    \/ ApiLoop(r)
    \/ ApiFetch(r)
    \/ ApiText(r)
    \/ ApiSleep(r)
    \/ ApiReturned(r)
    \/ ScrollScan(r)
    \/ ScrollSleep(r)
    \/ ScrollReturned(r)
    \/ EnrichCheck(r)
    \/ FarLoop(r)
    \/ FlrApi(r)
    \/ FlrJson(r)
    \/ FlrPage(r)
    \/ FlrHtml(r)
    \/ FarPush(r)
    \/ FarSleep(r)
    \/ Export(r)
    \/ Catch(r)

Next ==
  \/ \E count \in Counts : startScraping(count)
  \/ getProgress
  \/ \E r \in RunIds : RunBegin(r)
  \/ \E r \in RunIds : ApiBegin(r)
  \/ \E r \in RunIds : ApiLoop(r)
  \/ \E r \in RunIds : ApiFetch(r)
  \/ \E r \in RunIds : ApiText(r)
  \/ \E r \in RunIds : ApiSleep(r)
  \/ \E r \in RunIds : ApiReturned(r)
  \/ \E r \in RunIds : ScrollScan(r)
  \/ \E r \in RunIds : ScrollSleep(r)
  \/ \E r \in RunIds : ScrollReturned(r)
  \/ \E r \in RunIds : EnrichCheck(r)
  \/ \E r \in RunIds : FarLoop(r)
  \/ \E r \in RunIds : FlrApi(r)
  \/ \E r \in RunIds : FlrJson(r)
  \/ \E r \in RunIds : FlrPage(r)
  \/ \E r \in RunIds : FlrHtml(r)
  \/ \E r \in RunIds : FarPush(r)
  \/ \E r \in RunIds : FarSleep(r)
  \/ \E r \in RunIds : Export(r)
  \/ \E r \in RunIds : Catch(r)

Spec == Init /\ [][Next]_vars

\* every fetch and timer of a run completes, and a tick runs to its end
FairSpec == Spec /\ WF_vars(RunNext)

\* ---- the side panel driving the page script ----
\* what the count field may hold: nothing, a word, 0, a negative number, a
\* fraction, the smallest and the largest count
CountInputs == {"", "abc", "0", "-1", "2.5", "1", ToString(MaxCount)}

PopupNext ==
  \/ \E value \in CountInputs : Click(value)
  \/ getProgress
  \/ \E r \in RunIds : RunBegin(r)
  \/ \E r \in RunIds : ApiBegin(r)
  \/ \E r \in RunIds : ApiLoop(r)
  \/ \E r \in RunIds : ApiFetch(r)
  \/ \E r \in RunIds : ApiText(r)
  \/ \E r \in RunIds : ApiSleep(r)
  \/ \E r \in RunIds : ApiReturned(r)
  \/ \E r \in RunIds : ScrollScan(r)
  \/ \E r \in RunIds : ScrollSleep(r)
  \/ \E r \in RunIds : ScrollReturned(r)
  \/ \E r \in RunIds : EnrichCheck(r)
  \/ \E r \in RunIds : FarLoop(r)
  \/ \E r \in RunIds : FlrApi(r)
  \/ \E r \in RunIds : FlrJson(r)
  \/ \E r \in RunIds : FlrPage(r)
  \/ \E r \in RunIds : FlrHtml(r)
  \/ \E r \in RunIds : FarPush(r)
  \/ \E r \in RunIds : FarSleep(r)
  \/ \E r \in RunIds : Export(r)
  \/ \E r \in RunIds : Catch(r)

PopupSpec == Init /\ [][PopupNext]_vars

\* ---- fetchAllLikeRatings called on its own, on any list ----
Batches ==
  UNION { [1..n -> [id : 1..MaxBatch, url : BOOLEAN]] : n \in 0..MaxBatch }

\* the state at the entry of fetchAllLikeRatings(articles): results = [], i = 0
EnrichInit ==
  /\ scrapingState = InitialState
  /\ \E articles \in Batches :
       /\ runs = <<[NewRun(0) EXCEPT !.pc = "far_loop", !.farInput = articles]>>
       /\ trace = [NoTrace EXCEPT !.calls = <<"fetchAllLikeRatings">>,
                                  !.enrichInput = Array(articles)]
  /\ location = [pathname |-> "/search", q |-> "q"]
  /\ event = [kind |-> "load", run |-> 0, step |-> "", response |-> NoResponse]
  /\ downloads = <<>>

\* the steps of the call, up to its return (pc "export" is the caller's next step)
EnrichNext ==
  \/ \E r \in RunIds : FarLoop(r)
  \/ \E r \in RunIds : FlrApi(r)
  \/ \E r \in RunIds : FlrJson(r)
  \/ \E r \in RunIds : FlrPage(r)
  \/ \E r \in RunIds : FlrHtml(r)
  \/ \E r \in RunIds : FarPush(r)
  \/ \E r \in RunIds : FarSleep(r)

EnrichSpec == EnrichInit /\ [][EnrichNext]_vars

\* ---- single calls of the decoding, rating and export functions ----
UnitInit ==
  /\ scrapingState = InitialState
  /\ runs = <<>>
  /\ location = [pathname |-> "/search", q |-> "q"]
  /\ event = [kind |-> "load", run |-> 0, step |-> "", response |-> NoResponse]
  /\ downloads = <<>>
  /\ trace = NoTrace

\* one call of fn: its argument and what it returned
Call(fn, args, result) ==
  [kind |-> "call", run |-> 0, step |-> fn, response |-> [args |-> args, result |-> result]]

Returned(fn) == event.kind = "call" /\ event.step = fn

\* nothing was called yet: a behaviour is one call, the functions keep no state
Idle == event.kind = "load"

NormalizeCall ==
  /\ Idle
  /\ \E note \in RawItems :
       event' = Call("extractArticleFromNote", note, extractArticleFromNote(note))
  /\ UNCHANGED <<scrapingState, runs, location, downloads, trace>>

DecodeCall ==
  /\ Idle
  /\ \E data \in Pages :
       event' = Call("extractNotesFromApiResponse", data, extractNotesFromApiResponse(data))
  /\ UNCHANGED <<scrapingState, runs, location, downloads, trace>>

LocateCall ==
  /\ Idle
  /\ \E data \in LocatorPages :
       event' = Call("findNotesArray", data, findNotesArray(data))
  /\ UNCHANGED <<scrapingState, runs, location, downloads, trace>>

FindRatingCall ==
  /\ Idle
  /\ \/ \E levels \in 0..MaxDepth, key \in ChainKeys, value \in ChainValues,
             wide \in BOOLEAN :
          event' = Call("findRatingInObject",
                        [obj |-> Chain(levels, key, value, wide),
                         levels |-> levels, key |-> key, value |-> value],
                        findRatingInObject(Chain(levels, key, value, wide),
                                           ratingFieldCandidates, 0))
     \/ \E obj \in NonObjects :
          event' = Call("findRatingInObject",
                        [obj |-> obj, levels |-> 0, key |-> "", value |-> Undefined],
                        findRatingInObject(obj, ratingFieldCandidates, 0))
  /\ UNCHANGED <<scrapingState, runs, location, downloads, trace>>

ContainerCall ==
  /\ Idle
  /\ \E hasMultiple \in Ancestors :
       event' = Call("findArticleContainer", hasMultiple, findArticleContainer(hasMultiple))
  /\ UNCHANGED <<scrapingState, runs, location, downloads, trace>>

RatingCall ==
  /\ Idle
  /\ \E articleUrl \in ArticleUrls, api \in ApiAnswers, page \in PageAnswers :
       event' = Call("fetchLikeRating",
                     [articleUrl |-> articleUrl, api |-> api, page |-> page],
                     fetchLikeRating(articleUrl, api, page))
  /\ UNCHANGED <<scrapingState, runs, location, downloads, trace>>

CsvCall ==
  /\ Idle
  /\ \E articles \in CsvLists : event' = Call("downloadCSV", articles, CsvFile(articles))
  /\ UNCHANGED <<scrapingState, runs, location, downloads, trace>>

UnitNext ==
  \/ NormalizeCall
  \/ DecodeCall
  \/ LocateCall
  \/ FindRatingCall
  \/ ContainerCall
  \/ RatingCall
  \/ CsvCall

UnitSpec == UnitInit /\ [][UnitNext]_vars


\* ---- vocabulary of the properties ----
ActiveRuns == {r \in RunIds : Active(r)}

Accepted(e) == e.kind = "startScraping" /\ e.response.status = "started"

Rejected(e) == e.kind = "startScraping" /\ e.response.status = "already_running"

Terminal == {"completed", "error"}

Invoked(name) == \E k \in 1..Len(trace.calls) : trace.calls[k] = name

Ids(list) == [k \in 1..Len(list) |-> list[k].id]

\* ---- session state machine ----

\* C1: a startScraping request that arrives while status is 'scraping' is answered
\* 'already_running', starts no run (the set of pipelines and each one's position
\* and locals are unchanged) and leaves every field of the session state unchanged.
C1_RejectedStartChangesNothing ==
  [][(event'.kind = "startScraping" /\ scrapingState.status = "scraping")
       => /\ event'.response.status = "already_running"
          /\ scrapingState' = scrapingState
          /\ runs' = runs]_vars

C1_Witness ==
  /\ Rejected(event)
  /\ scrapingState.status = "scraping"
  /\ scrapingState.current > 0
  /\ Cardinality(ActiveRuns) = 1

\* C2: at every point of every interleaving at most one run pipeline is active, a
\* request is accepted only when none is, and the session state changes only in the
\* accepted request's own reset or in a step of the one active run.
C2_SingleActiveRun ==
  [][/\ Cardinality({r \in 1..Len(runs') : runs'[r].pc # "done"}) <= 1
     /\ (Accepted(event') /\ runs' # runs) => ActiveRuns = {}
     /\ (scrapingState' # scrapingState)
          => \/ Accepted(event') /\ runs' # runs
             \/ event'.kind = "run" /\ ActiveRuns = {event'.run}]_vars

C2_Witness ==
  /\ Len(runs) = 2
  /\ ActiveRuns = {2}
  /\ event.kind = "run" /\ event.run = 2
  /\ scrapingState.current > 0

\* C3: every accepted run eventually leaves 'scraping' for completed or error when
\* all its fetches and timers complete, and a terminal status changes only by an
\* accepted startScraping.
C3_RunReachesTerminalOnce ==
  /\ (scrapingState.status = "scraping") ~> (scrapingState.status \in Terminal)
  /\ [][(scrapingState.status \in Terminal /\ scrapingState' # scrapingState)
          => Accepted(event')]_vars

\* C4: for a run started with a positive count, at every point where a getProgress
\* can be served, 0 <= current <= max(targetCount, number of articles).
C4_ProgressBounded ==
  (Quiescent /\ scrapingState.targetCount >= 1)
    => /\ 0 <= scrapingState.current
       /\ scrapingState.current
            <= Max(scrapingState.targetCount, Len(scrapingState.articles))

C4_Witness ==
  /\ Quiescent
  /\ scrapingState.status = "scraping"
  /\ scrapingState.targetCount >= 2
  /\ scrapingState.current = scrapingState.targetCount
  /\ \E r \in RunIds : runs[r].pc = "api_sleep"

\* C5: right after an accepted startScraping the session state is status scraping,
\* current 0, targetCount the requested count, no articles and an empty message,
\* whatever the previous run left.
C5_AcceptedStartResets ==
  Accepted(event)
    => /\ scrapingState.status = "scraping"
       /\ scrapingState.current = 0
       /\ scrapingState.targetCount = runs[event.run].count
       /\ scrapingState.articles = <<>>
       /\ scrapingState.message = NoMessage

C5_Witness ==
  /\ Accepted(event)
  /\ event.run = 2
  /\ scrapingState.targetCount = 1

\* C6: a getProgress request answers with the status, current, targetCount (as
\* total) and message held at that moment (idle and 0 before any start) and changes
\* neither the session state nor the position or locals of any run.
C6_GetProgressReadsOnly ==
  [][(event'.kind = "getProgress")
       => /\ event'.response.status = scrapingState.status
          /\ event'.response.current = scrapingState.current
          /\ event'.response.total = scrapingState.targetCount
          /\ event'.response.message = scrapingState.message
          /\ (runs = <<>> => event'.response.status = "idle"
                             /\ event'.response.current = 0)
          /\ scrapingState' = scrapingState
          /\ runs' = runs]_vars

C6_Witness ==
  /\ event.kind = "getProgress"
  /\ event.response.status = "scraping"
  /\ event.response.current = 1
  /\ event.response.total = 2
  /\ event.response.message.kind = "rating_progress"

\* C7 (as stated): a run ends in error only through an exception caught at the top
\* of the run; a run in which no exception is raised does not end in error.
C7_ErrorOnlyByException ==
  scrapingState.status = "error" => trace.threw

\* C7 (amended): a run ends in error either through an exception caught at the top
\* of the run or, with no exception, because the harvest yielded no article; a run
\* ends completed only with no exception and a non-empty harvest.
C7_ErrorByExceptionOrEmptyHarvest ==
  /\ scrapingState.status = "error"
       => \/ trace.threw /\ scrapingState.message.kind = "exception"
          \/ /\ ~trace.threw
             /\ scrapingState.message.kind = "no_articles"
             /\ scrapingState.articles = <<>>
             /\ ~Invoked("fetchAllLikeRatings")
  /\ scrapingState.status = "completed"
       => ~trace.threw /\ Len(scrapingState.articles) > 0

C7_Witness ==
  /\ scrapingState.status = "error"
  /\ ~trace.threw
  /\ scrapingState.message.kind = "no_articles"
  /\ trace.calls = <<"fetchFromAPI", "autoScrollAndCollect">>

\* C8: the export is invoked at most once per run, only after the harvest and after
\* the enrichment of the whole harvested list, and before the completed transition;
\* a completed run has invoked it exactly once and saved one file with one row per
\* harvested article in harvest order; a run that ends in error for lack of articles
\* has not invoked it.
C8_ExportOncePerCompletedRun ==
  LET n == Len(trace.calls)
      exports == {k \in 1..n : trace.calls[k] = "downloadCSV"}
  IN /\ Cardinality(exports) <= 1
     /\ exports # {}
          => /\ n >= 3 /\ exports = {n}
             /\ trace.calls[n - 1] = "fetchAllLikeRatings"
             /\ trace.calls[1] \in {"fetchFromAPI", "autoScrollAndCollect"}
             /\ trace.enrichInput = Array(scrapingState.articles)
     /\ Len(downloads) <= Cardinality(exports)
     /\ \A f \in 1..Len(downloads) : Ids(downloads[f]) = Ids(scrapingState.articles)
     /\ scrapingState.status = "completed" => exports # {} /\ Len(downloads) = 1
     /\ (scrapingState.status = "error" /\ scrapingState.message.kind = "no_articles")
          => exports = {} /\ downloads = <<>>

C8_Witness ==
  /\ scrapingState.status = "completed"
  /\ Len(downloads) = 1
  /\ Len(downloads[1]) = 2
  /\ downloads[1][1].likeRating = 0
  /\ downloads[1][2].likeRating > 0

\* C9: on a hashtag page the scroll collector is invoked first and no API harvest or
\* API request happens; on a search page the API harvester is invoked first and the
\* scroll collector is invoked exactly when the API harvester returned null or an
\* empty list; the list handed to the rating enricher is the one the chosen
\* harvester produced.
C9_StrategyRouting ==
  LET api == Invoked("fetchFromAPI")
      scroll == Invoked("autoScrollAndCollect")
      nothing == trace.apiReturn.kind # "array" \/ trace.apiReturn.list = <<>>
      \* the pipeline is past the routing: enrichment began or the run ended unraised
      routed == Invoked("fetchAllLikeRatings")
                  \/ (scrapingState.status \in Terminal /\ ~trace.threw)
  IN /\ getPageType = "hashtag"
          => /\ ~api /\ trace.apiRequests = 0
             /\ trace.calls # <<>> => trace.calls[1] = "autoScrollAndCollect"
     /\ getPageType = "search"
          => /\ trace.calls # <<>> => trace.calls[1] = "fetchFromAPI"
             /\ scroll => trace.apiReturn.kind # "undefined" /\ nothing
             /\ routed => (scroll <=> nothing)
     /\ Invoked("fetchAllLikeRatings")
          => /\ trace.enrichInput = Array(scrapingState.articles)
             /\ ~scroll => trace.enrichInput = trace.apiReturn

C9_Witness ==
  /\ getPageType = "search"
  /\ trace.calls = <<"fetchFromAPI", "autoScrollAndCollect", "fetchAllLikeRatings">>
  /\ trace.apiRequests = 2
  /\ trace.apiReturn = Null

\* C10: when a page request of fetchFromAPI answers without success, cannot be
\* decoded or throws, on the first page or a later one, fetchFromAPI returns null;
\* the articles of earlier pages are dropped and never reach the export.
C10_ApiFailureReturnsNull ==
  trace.apiFailed
    => /\ trace.apiReturn = Null
       /\ \A r \in RunIds : runs[r].pc = "api_ret" => runs[r].articles = Null
       /\ \A f \in 1..Len(downloads) : \A k \in 1..Len(downloads[f]) :
            downloads[f][k].id > 100

C10_Witness ==
  /\ trace.apiFailed
  /\ trace.apiRequests = 2
  /\ \E r \in RunIds : /\ runs[r].pc = "api_ret"
                       /\ Len(runs[r].apiArticles) > 0
                       /\ runs[r].articles = Null

\* C11: when no page fails, fetchFromAPI requests a page only while it holds fewer
\* than targetCount articles, and stops at the first page that yields no article
\* or once targetCount is reached; it returns the first targetCount of the articles
\* that arrived, in arrival order, or null when none was collected, and it issues
\* no request after it has returned.
C11_ApiStopsAndTrims ==
  /\ [](\A r \in RunIds :
         LET articles == runs[r].apiArticles
             targetCount == runs[r].count
             pages == runs[r].start \div PAGE_SIZE
         IN /\ runs[r].pc \in {"api_fetch", "api_text"}
                 => /\ Len(articles) < targetCount
                    /\ trace.apiRequests = pages + 1
            /\ (runs[r].pc = "api_ret" /\ ~trace.apiFailed)
                 => /\ articles = Slice(trace.apiArrived, targetCount)
                    /\ runs[r].articles
                         = IF articles = <<>> THEN Null ELSE Array(articles)
                    /\ runs[r].articles = trace.apiReturn
                    /\ \/ location.q = "" /\ trace.apiRequests = 0
                       \/ Len(articles) >= targetCount /\ trace.apiRequests = pages
                       \* stopped by an empty page, the last one requested
                       \/ /\ Len(articles) < targetCount
                          /\ Len(trace.apiArrived) = Len(articles)
                          /\ trace.apiRequests = pages + 1)
  /\ [][(trace.apiReturn # Undefined /\ trace'.apiReturn # Undefined)
          => trace'.apiRequests = trace.apiRequests]_vars

\* two pages arrived, the second one larger than what was still missing
C11_Witness ==
  /\ ~trace.apiFailed
  /\ trace.apiRequests = 2
  /\ Len(trace.apiArrived) > MaxCount - 1
  /\ \E r \in RunIds : /\ runs[r].pc = "api_ret"
                       /\ runs[r].count = MaxCount - 1
                       /\ runs[r].articles = Array(Slice(trace.apiArrived, MaxCount - 1))

\* C12: while the scans of one call of autoScrollAndCollect never shrink (the
\* harvestable articles grow, then stay constant), the loop goes on only below 15
\* consecutive non-growing scans and below targetCount; it returns at the 15th
\* non-growing scan with everything found, fewer than targetCount articles, and so
\* every such call returns.
C12_ScrollInv ==
  \A r \in RunIds :
    LET scans == trace.scans
    IN scans.mono
         => /\ runs[r].pc \in {"scroll_scan", "scroll_sleep"}
                 => /\ scans.flat < MAX_RETRIES
                    /\ scans.flat = runs[r].noNewArticleRetries
            /\ runs[r].pc = "scroll_sleep" => scans.high < runs[r].count
            /\ runs[r].pc = "scroll_ret"
                 => \/ scans.high >= runs[r].count
                    \/ /\ scans.flat = MAX_RETRIES
                       /\ scans.high < runs[r].count
                       /\ Len(scrapingState.articles) = scans.high

C12_StagnationTerminates ==
  /\ []C12_ScrollInv
  /\ (\E r \in RunIds : runs[r].pc \in {"scroll_scan", "scroll_sleep"})
       ~> (\/ \A r \in RunIds : runs[r].pc \notin {"scroll_scan", "scroll_sleep"}
           \/ ~trace.scans.mono)

\* the count grew to one article below the target, stayed there for 15 scans, and
\* the call returned
C12_Witness ==
  /\ trace.scans = [mono |-> TRUE, high |-> MaxCount - 1, flat |-> MAX_RETRIES]
  /\ \E r \in RunIds : /\ runs[r].pc = "scroll_ret"
                       /\ runs[r].count = MaxCount
                       /\ Len(scrapingState.articles) = MaxCount - 1

\* C13: once a harvester has returned, the session's article list is never longer
\* than targetCount. When autoScrollAndCollect returns because the count reached
\* targetCount, the list is the first targetCount harvested articles and current is
\* targetCount; when it returns on stagnation, the list is everything harvested,
\* fewer than targetCount, and a run that harvested something ends in error only
\* through an exception.
C13_HarvestWithinTarget ==
  /\ \A r \in RunIds :
       LET targetCount == runs[r].count
           articles == scrapingState.articles
       IN /\ (Active(r) /\ runs[r].pc \notin {"iife", "api_begin", "api_loop", "api_fetch",
                                              "api_text", "api_sleep", "api_ret",
                                              "scroll_scan", "scroll_sleep", "catch"})
               => Len(articles) <= targetCount
          /\ (runs[r].pc = "api_ret" /\ runs[r].articles.kind = "array")
               => Len(runs[r].articles.list) <= targetCount
          /\ (runs[r].pc = "scroll_ret" /\ scrapingState.status = "scraping")
               => IF Stagnated(runs[r].noNewArticleRetries)
                  THEN /\ Len(articles) < targetCount
                       /\ articles = collectArticlesFromDom(runs[r].lastArticleCount)
                       /\ scrapingState.current = Len(articles)
                  ELSE /\ articles = collectArticlesFromDom(targetCount)
                       /\ scrapingState.current = targetCount
  /\ (scrapingState.status = "error" /\ ~trace.threw) => scrapingState.articles = <<>>

\* the document held more articles than asked for when the collector returned
C13_Witness ==
  /\ trace.scans = [mono |-> TRUE, high |-> MaxDom, flat |-> 0]
  /\ \E r \in RunIds : /\ runs[r].pc = "scroll_ret"
                       /\ runs[r].count = MaxDom - 1
                       /\ Len(scrapingState.articles) = MaxDom - 1
                       /\ scrapingState.current = MaxDom - 1

\* a non-negative whole number
IsCount(num) == num.kind = "number" /\ num.halves >= 0 /\ num.halves % 2 = 0

\* C14: fetchLikeRating resolves to a non-negative integer whatever the detail API
\* and the page answer (success, other status, raised error, undecodable body), and
\* to 0 with no request issued when the URL is empty or carries no identifier.
C14_RatingIsCount ==
  Returned("fetchLikeRating")
    => LET args == event.response.args
           result == event.response.result
       IN /\ IsCount(result.value)
          /\ args.articleUrl \in {"", "https://note.com/u/m/k1"}
               => result.value = Num(0) /\ result.requests = 0

\* the field names of the engagement count
EngagementNames ==
  {"like_count", "likeCount", "likes_count", "likesCount",
   "sp_count", "spCount", "suki_count", "sukiCount"}

\* every field of val that holds something other than an object is an engagement
\* count
OnlyEngagement(val) ==
  \A i \in 1..Len(Pairs(val)) :
    Pairs(val)[i][2].kind # "object" => Pairs(val)[i][1] \in EngagementNames

HasEngagement(val) ==
  \E i \in 1..Len(Pairs(val)) : Pairs(val)[i][1] \in EngagementNames

\* C15: when the body of the detail API and the markup of the page hold
\* engagement-count fields but no rating field, and the markup has no rating
\* phrase, fetchLikeRating resolves to 0: an engagement count never becomes the
\* rating.
C15_EngagementNeverRating ==
  Returned("fetchLikeRating")
    => LET args == event.response.args
           html == args.page.html
       IN (/\ OnlyEngagement(args.api.body)
           /\ args.page.outcome = "ok"
                => /\ html.phrase = Undefined
                   /\ OnlyEngagement(html.next)
                   /\ OnlyEngagement(html.nuxt)
                   /\ OnlyEngagement(html.loose))
            => event.response.result.value = Num(0)

\* both requests answered, with a like_count in the body and in every part of the
\* markup
C15_Witness ==
  /\ Returned("fetchLikeRating")
  /\ event.response.result = [value |-> Num(0), requests |-> 2]
  /\ event.response.args.api.outcome = "ok"
  /\ HasEngagement(event.response.args.api.body)
  /\ event.response.args.page.outcome = "ok"
  /\ event.response.args.page.html.phrase = Undefined
  /\ HasEngagement(event.response.args.page.html.next)
  /\ HasEngagement(event.response.args.page.html.nuxt)
  /\ HasEngagement(event.response.args.page.html.loose)
  /\ OnlyEngagement(event.response.args.api.body)
  /\ OnlyEngagement(event.response.args.page.html.next)
  /\ OnlyEngagement(event.response.args.page.html.nuxt)
  /\ OnlyEngagement(event.response.args.page.html.loose)

\* C16: fetchAllLikeRatings builds its result in the order of its input: after k
\* articles the result holds k records, record j carrying the id and url of input
\* article j and a likeRating (0 when the article has no URL to resolve); the
\* input list stays as it was handed in, and the returned list has the input's
\* length, so an empty input returns an empty list.
C16_EnrichPreservesArticles ==
  \A r \in RunIds :
    LET input == trace.enrichInput.list
        results == IF runs[r].pc = "export" THEN runs[r].articles.list ELSE runs[r].results
    IN /\ runs[r].farInput = input
       /\ Len(results) <= Len(input)
       /\ runs[r].pc = "export" => Len(results) = Len(input)
       /\ runs[r].pc \in {"far_loop", "far_sleep"}
            => Len(results) = IF runs[r].pc = "far_sleep" THEN runs[r].i + 1 ELSE runs[r].i
       /\ \A j \in 1..Len(results) :
            /\ results[j].id = input[j].id
            /\ results[j].url = input[j].url
            /\ results[j].likeRating \in Ratings
            /\ ~input[j].url => results[j].likeRating = 0

\* a list of two articles came back, the first unresolved, the second rated
C16_Witness ==
  \E r \in RunIds :
    /\ runs[r].pc = "export"
    /\ Len(trace.enrichInput.list) = 2
    /\ runs[r].articles.list[1].likeRating = 0
    /\ runs[r].articles.list[2].likeRating > 0
    /\ runs[r].articles.list[2].id = trace.enrichInput.list[2].id

\* the title candidates of an object, in the order they are tried
TitleCandidates(note) ==
  LET nested == Get(note, "note")
      inner == IF nested.kind \in {"object", "array"} THEN nested ELSE note
  IN <<safeStr(Get(inner, "name")), safeStr(Get(note, "name")),
       safeStr(Get(inner, "title")), safeStr(Get(note, "title")),
       safeStr(Get(inner, "headline")), safeStr(Get(note, "headline"))>>

Untitled(note) == \A k \in 1..6 : TitleCandidates(note)[k] = ""

IsObject(note) == note.kind \in {"object", "array"}

\* C17 (as stated): extractArticleFromNote returns null when its input is null or
\* not an object and also when every title candidate is empty; it returns an
\* Article only when the title is non-empty.
C17_NullWhenUntitled ==
  Returned("extractArticleFromNote")
    => LET note == event.response.args
           result == event.response.result
       IN /\ (~IsObject(note) \/ Untitled(note)) => result = Null
          /\ result.kind = "article" => result.title # ""

\* C17 (amended): extractArticleFromNote returns null exactly when its input is
\* null, undefined or not an object. For an object it returns an Article whose
\* title is the first non-empty candidate, and the empty string when every
\* candidate is empty (unless building the URL raises).
C17_NullOnlyForNonObject ==
  Returned("extractArticleFromNote")
    => LET note == event.response.args
           result == event.response.result
           filled == {k \in 1..6 : TitleCandidates(note)[k] # ""}
       IN /\ ~IsObject(note) <=> result = Null
          /\ IsObject(note)
               => \/ result = Thrown
                  \/ /\ result.kind = "article"
                     /\ Untitled(note) <=> result.title = ""
                     /\ \A k \in filled :
                          (\A j \in filled : k <= j) => result.title = TitleCandidates(note)[k]

\* an object with counts and no title came back as an Article titled ""
C17_Witness ==
  /\ Returned("extractArticleFromNote")
  /\ event.response.args.kind = "object"
  /\ Untitled(event.response.args)
  /\ Get(event.response.args, "like_count") = Num(10)
  /\ event.response.result.kind = "article"
  /\ event.response.result.title = ""
  /\ event.response.result.likeCount = Num(10)

\* the raw items of a page that yield a titled Article
Titled(note) ==
  /\ extractArticleFromNote(note).kind = "article"
  /\ extractArticleFromNote(note).title # ""

\* C18: extractNotesFromApiResponse returns the Articles of the located items that
\* have a non-empty title, in their order in the page; an untitled item, a
\* non-object item and an item whose normalization raises are left out and the
\* items after them are still processed; Article k is the normalization of the
\* k-th titled item alone.
C18_DecodeKeepsTitledInOrder ==
  Returned("extractNotesFromApiResponse")
    => LET located == findNotesArray(event.response.args)
           result == event.response.result
           kept == {i \in 1..Len(located) : Titled(located[i])}
           Nth(k) == CHOOSE i \in kept : Cardinality({j \in kept : j <= i}) = k
       IN /\ Len(result) = Cardinality(kept)
          /\ \A k \in 1..Len(result) : result[k] = extractArticleFromNote(located[Nth(k)])
          /\ \A i \in 1..Len(located) :
               (\/ ~IsObject(located[i])
                \/ Untitled(located[i])
                \/ Get(located[i], "href").kind = "number") => i \notin kept

\* a page whose first item raises and whose second has no title: the third is
\* returned
C18_Witness ==
  /\ Returned("extractNotesFromApiResponse")
  /\ LET located == findNotesArray(event.response.args)
     IN /\ Len(located) = 3
        /\ extractArticleFromNote(located[1]) = Thrown
        /\ located[2].kind = "object" /\ Untitled(located[2])
        /\ Get(located[3], "name") = Str("A")
  /\ Len(event.response.result) = 1
  /\ event.response.result[1].title = "A"
  /\ event.response.result[1].url = "https://note.com/u/n/k1"

\* C19: in every Article that extractArticleFromNote returns, likeCount and price
\* are non-negative integers, whatever the raw values (negative, fractional,
\* numeric string, boolean, non-numeric string).
C19_CountsAreNonNegativeIntegers ==
  (/\ Returned("extractArticleFromNote")
   /\ event.response.result.kind = "article"
   /\ event.response.result.title # "")
    => /\ IsCount(event.response.result.likeCount)
       /\ IsCount(event.response.result.price)

\* the text between the outer quotes holds quote characters only in pairs
RECURSIVE QuotesDoubled(_)
QuotesDoubled(str) ==
  IF str = "" THEN TRUE
  ELSE IF Head(str) # "\"" THEN QuotesDoubled(Tail(str))
  ELSE /\ Len(str) >= 2
       /\ SubSeq(str, 2, 2) = "\""
       /\ QuotesDoubled(SubSeq(str, 3, Len(str)))

Quoted(cell) ==
  /\ Len(cell) >= 2
  /\ Head(cell) = "\""
  /\ SubSeq(cell, Len(cell), Len(cell)) = "\""
  /\ QuotesDoubled(SubSeq(cell, 2, Len(cell) - 1))

\* the text a quoted cell stands for
RECURSIVE Unquoted(_)
Unquoted(str) ==
  IF str = "" THEN ""
  ELSE IF Head(str) = "\"" THEN "\"" \o Unquoted(SubSeq(str, 3, Len(str)))
  ELSE SubSeq(str, 1, 1) \o Unquoted(Tail(str))

\* C20 (as stated): every one of the six fields of every data row is wrapped in
\* double quotes with embedded quotes doubled, and there is one row of six columns
\* per article.
C20_EveryFieldQuoted ==
  Returned("downloadCSV")
    => LET rows == event.response.result.rows
       IN /\ Len(rows) = Len(event.response.args)
          /\ \A k \in 1..Len(rows) :
               /\ Len(rows[k]) = 6
               /\ \A c \in 1..6 : Quoted(rows[k][c])

\* C20 (amended): there is one row of six columns per article; title, URL and
\* creator are wrapped in double quotes with embedded quotes doubled, an empty one
\* being written as two quotes; the engagement count, the rating count (0 when
\* absent) and the price are written as the plain decimal text of the number,
\* without quotes.
C20_TextQuotedNumbersPlain ==
  Returned("downloadCSV")
    => LET articles == event.response.args
           rows == event.response.result.rows
           Digits == {"0", "1", "2", "3", "4", "5", "6", "7", "8", "9"}
           Plain(cell) == cell # "" /\ \A i \in 1..Len(cell) : SubSeq(cell, i, i) \in Digits
       IN /\ Len(rows) = Len(articles)
          /\ \A k \in 1..Len(rows) :
               /\ Len(rows[k]) = 6
               /\ \A c \in {1, 5, 6} : Quoted(rows[k][c])
               /\ Unquoted(SubSeq(rows[k][1], 2, Len(rows[k][1]) - 1)) = articles[k].title.s
               /\ Unquoted(SubSeq(rows[k][5], 2, Len(rows[k][5]) - 1)) = articles[k].url.s
               /\ Unquoted(SubSeq(rows[k][6], 2, Len(rows[k][6]) - 1)) = articles[k].creator.s
               /\ \A c \in {2, 3, 4} : Plain(rows[k][c])
               /\ articles[k].likeRating = Undefined => rows[k][3] = "0"

\* a row whose title holds a quote character and whose rating is absent
C20_Witness ==
  /\ Returned("downloadCSV")
  /\ Len(event.response.args) = 1
  /\ event.response.args[1].title = Str("sa\"id")
  /\ event.response.args[1].likeRating = Undefined
  /\ event.response.result.rows[1][1] = "\"sa\"\"id\""
  /\ event.response.result.rows[1][2] = "24"
  /\ event.response.result.rows[1][3] = "0"

\* ---- the start button and the remaining harvest, lookup and progress properties ----

\* C21: a click on the start button with a count that is not a number or is less
\* than 1, or with an active tab that is not a search result page, is answered by
\* an error in the panel and changes nothing on the page: the session state, the
\* runs, the download list and the call history stay as they were; every run that
\* exists was started with a count of at least 1 on a search result page.
C21_MisuseRejectedBeforeWork ==
  [][/\ event'.kind = "click"
        => /\ scrapingState' = scrapingState
           /\ runs' = runs
           /\ downloads' = downloads
           /\ trace' = trace
     /\ \A r \in 1..Len(runs') :
          runs'[r].pc /= "done" => /\ runs'[r].count >= 1
                                   /\ location'.pathname = "/search"
     /\ scrapingState'.status = "scraping" => scrapingState'.targetCount >= 1]_vars

C21_Witness ==
  /\ event.kind = "click"
  /\ event.response.status = "invalid_count"
  /\ Len(runs) = 1
  /\ runs[1].pc = "done"
  /\ scrapingState.status = "completed"

\* C22: every call of autoScrollAndCollect returns, whatever the document shows:
\* a run that is in the scroll loop eventually leaves it, also when the harvested
\* count shrinks or oscillates below targetCount.
C22_ScrollAlwaysReturns ==
  (\E r \in RunIds : runs[r].pc \in {"scroll_scan", "scroll_sleep"})
    ~> (\A r \in RunIds : runs[r].pc \notin {"scroll_scan", "scroll_sleep"})

\* C23: fetchLikeRating requests the article's page exactly when the detail
\* request neither raised (in fetch or in decoding the body) nor gave a positive
\* rating: a raised detail request gives 0 after one request, a positive rating of
\* the detail API is returned after one request, and a non-success status or a
\* body without a positive rating field is followed by the page request.
C23_PageFetchedIff ==
  (Returned("fetchLikeRating") /\ HasNoteKey(event.response.args.articleUrl))
    => LET api == event.response.args.api
           result == event.response.result
           raised == api.outcome \in {"throw", "bad_json"}
           rated == api.outcome = "ok" /\ Positive(RatingInApiBody(api.body))
       IN /\ result.requests \in {1, 2}
          /\ result.requests = 2 <=> (~raised /\ ~rated)
          /\ raised => result.value = Num(0)
          /\ rated => result.value = RatingInApiBody(api.body)
          /\ api.outcome = "not_ok" => result.requests = 2

\* the detail API answered 404 and the page gave the rating
C23_Witness ==
  /\ Returned("fetchLikeRating")
  /\ event.response.args.api.outcome = "not_ok"
  /\ event.response.args.page.outcome = "ok"
  /\ event.response.result.requests = 2
  /\ Positive(event.response.result.value)

\* the positions inside one call of fetchLikeRating
InCascade == {"flr_api", "flr_json", "flr_page", "flr_html"}

\* C24: fetchAllLikeRatings rates the articles one after another. While the
\* requests for article i are in flight, exactly the i articles before it have
\* been pushed and no other run is rating; the loop reaches article i+1 only from
\* the delay that follows article i; and the step that pushes article i sets the
\* progress counter to i+1.
C24_OneCascade ==
  /\ Cardinality({r \in RunIds : runs[r].pc \in InCascade \cup {"far_push", "far_sleep"}}) <= 1
  /\ \A r \in RunIds :
       /\ runs[r].pc \in InCascade \cup {"far_push"}
            => /\ runs[r].i < Len(runs[r].farInput)
               /\ Len(runs[r].results) = runs[r].i
       /\ runs[r].pc = "far_sleep"
            => /\ Len(runs[r].results) = runs[r].i + 1
               /\ scrapingState.current = runs[r].i + 1

C24_RatesOneByOne ==
  /\ []C24_OneCascade
  /\ [][\A r \in RunIds :
          /\ (/\ runs'[r].pc = "far_loop" /\ runs[r].pc /= "far_loop"
              /\ runs'[r].i > 0 /\ runs'[r].i < Len(runs'[r].farInput))
               => /\ runs[r].pc = "far_sleep"
                  /\ runs'[r].i = runs[r].i + 1
          /\ (event'.kind = "run" /\ event'.run = r /\ event'.step = "far_push")
               => /\ runs[r].pc = "far_push"
                  /\ Len(runs'[r].results) = runs[r].i + 1
                  /\ scrapingState'.current = runs[r].i + 1]_vars

\* the second article's requests are in flight after the first was pushed
C24_Witness ==
  \E r \in RunIds :
    /\ runs[r].pc = "flr_page"
    /\ runs[r].i = 1
    /\ Len(runs[r].results) = 1
    /\ scrapingState.current = 1
    /\ Len(runs[r].farInput) >= 2

\* the places findNotesArray may take the list from, in their order: the nine
\* fixed paths, data.data, the properties of data.data, the other properties of data
Candidates(data) ==
  LET inData == Get(data, "data")
      values(entries) == [i \in 1..Len(entries) |-> entries[i][2]]
  IN <<Get(Get(inData, "notes"), "contents"), Get(Get(inData, "notes"), "items"),
       Get(inData, "notes"), Get(inData, "contents"), Get(inData, "search_results"),
       Get(inData, "items"), Get(data, "notes"), Get(data, "contents"),
       Get(data, "items"), inData>>
     \o (IF inData.kind = "object" THEN values(Entries(inData)) ELSE <<>>)
     \o values(SelectSeq(Entries(data), LAMBDA entry : entry[1] /= "data"))

Eligible(val) ==
  /\ val.kind = "array"
  /\ val.list /= <<>>
  /\ val.list[1].kind \in {"object", "array"}

\* C25: findNotesArray returns the first candidate, in the fixed order, that is a
\* non-empty array whose first element is a non-null object, and the empty list
\* when there is none or when its argument is null or not an object; it never
\* returns an array of primitives.
C25_FirstEligibleCandidate ==
  Returned("findNotesArray")
    => LET data == event.response.args
           result == event.response.result
           candidates == IF data.kind \in {"object", "array"} THEN Candidates(data) ELSE <<>>
           eligible == {k \in 1..Len(candidates) : Eligible(candidates[k])}
       IN /\ result = IF eligible = {} THEN <<>>
                      ELSE candidates[CHOOSE k \in eligible : \A j \in eligible : k <= j].list
          /\ result /= <<>> => result[1].kind \in {"object", "array"}

\* C26: when the nested note of an item and the item itself both carry a name, a
\* like_count and a price (strings and numbers, null nowhere), the normalized
\* title, likeCount and price are the nested note's values, 0 included.
C26_InnerWins ==
  (/\ Returned("extractArticleFromNote")
   /\ event.response.args.kind = "object"
   /\ Get(event.response.args, "note").kind = "object")
    => LET note == event.response.args
           inner == Get(note, "note")
           article == event.response.result
           both(key, kind) == Get(inner, key).kind = kind /\ Get(note, key).kind = kind
       IN /\ both("name", "string") => article.title = Get(inner, "name").s
          /\ both("like_count", "number") => article.likeCount = Get(inner, "like_count")
          /\ both("price", "number") => article.price = Get(inner, "price")

C28_SmallestSharedAncestor ==
  Returned("findArticleContainer")
    => LET hasMultiple == event.response.args
           shared == {k \in 1..Len(hasMultiple) : k <= 10 /\ hasMultiple[k]}
       IN event.response.result
            = IF shared = {} THEN 1 ELSE CHOOSE k \in shared : \A j \in shared : k <= j

\* the positions inside one call of fetchFromAPI
InApi == {"api_loop", "api_fetch", "api_text", "api_sleep"}

\* C29: fetchFromAPI returns whenever its requests and delays complete. Every
\* round that goes on to the next one has added at least one article, so the
\* number of page requests never exceeds targetCount; it is 0 when the query is
\* empty or targetCount is 0, and 1 when the first page fails or holds no article.
C29_ApiInv ==
  /\ runs /= <<>> => trace.apiRequests <= scrapingState.targetCount
  /\ location.q = "" => trace.apiRequests = 0
  /\ \A r \in RunIds :
       LET rounds == runs[r].start \div PAGE_SIZE
       IN /\ runs[r].pc \in {"api_loop", "api_sleep"}
               => /\ trace.apiRequests = rounds
                  /\ Len(runs[r].apiArticles) >= rounds
          /\ runs[r].pc \in {"api_fetch", "api_text"}
               => /\ trace.apiRequests = rounds + 1
                  /\ Len(runs[r].apiArticles) >= rounds
                  /\ Len(runs[r].apiArticles) < runs[r].count

C29_ApiTerminates ==
  /\ []C29_ApiInv
  /\ [][\A r \in RunIds :
          (/\ runs[r].pc \in {"api_fetch", "api_text"}
           /\ runs[r].start = 0
           /\ runs'[r].pc = "api_ret")
            => /\ trace'.apiRequests = 1
               /\ runs'[r].articles = Null]_vars
  /\ (\E r \in RunIds : runs[r].pc \in InApi)
       ~> (\A r \in RunIds : runs[r].pc \notin InApi)

\* every page held one article and the call returned after targetCount requests
C29_Witness ==
  /\ trace.apiRequests = MaxCount
  /\ \E r \in RunIds : /\ runs[r].pc = "api_ret"
                       /\ runs[r].count = MaxCount
                       /\ runs[r].articles.kind = "array"
                       /\ Len(runs[r].articles.list) = MaxCount

\* C30: within one run the progress counter a getProgress reports never goes
\* down: once a snapshot of the k-th run can show n, every later snapshot of that
\* run shows n or more, from the start to the terminal state.
C30_ProgressNeverDecreases ==
  \A k \in 1..MaxRuns : \A n \in 1..MaxCount :
    []((Quiescent /\ Len(runs) = k /\ scrapingState.current = n)
         => []((Quiescent /\ Len(runs) = k) => scrapingState.current >= n))

\* C30 as the code has it: within a run the counter goes down only in the step of
\* a scroll scan, which reports the count of that scan, and in the push of the
\* first rated article, which sets it to 1 whatever the harvest had reached; the
\* API harvest, the later pushes and the completed transition never lower it.
C30_DecreasesOnlyAtScanOrHandOver ==
  [][(scrapingState'.current < scrapingState.current /\ ~Accepted(event'))
       => /\ event'.kind = "run"
          /\ \/ event'.step = "scroll_scan"
             \/ /\ event'.step = "far_push"
                /\ runs[event'.run].i = 0
                /\ scrapingState'.current = 1]_vars

\* the harvest reached 2 or more and the first rated article set the counter to 1
C30_Witness ==
  /\ Quiescent
  /\ scrapingState.current = 1
  /\ Len(scrapingState.articles) >= 2
  /\ \E r \in RunIds : runs[r].pc = "far_sleep" /\ runs[r].i = 0

====
